---------------------------- MODULE Spec2Model ----------------------------
(***************************************************************************)
(* Grid-accelerated N-body simulation (OpenCL kernels + host pipeline).    *)
(*                                                                         *)
(* Arithmetic.  The kernels compute in 32-bit floats.  The model uses      *)
(* fixed-point integers: one length unit is half a world unit (the world   *)
(* [-1,1] is [-2,2]), float division and float->int casts truncate toward  *)
(* zero, sqrt is the integer square root.  Every float operation the       *)
(* kernels use is odd-symmetric (f(-x) = -f(x)); so are the integer ones.  *)
(***************************************************************************)
EXTENDS Integers, Sequences, FiniteSets, TLC

(***************************************************************************)
(* Bounds of the model                                                     *)
(***************************************************************************)
PosRange == 3          \* coordinates of enumerated positions: -PosRange..PosRange
MaxGridCells == 3      \* per-axis cell counts enumerated for the kernels: 1..MaxGridCells

(***************************************************************************)
(* World bounds (MyApp.h), in model units                                  *)
(***************************************************************************)
worldMin == -2
worldMax == 2

Vec3(x, y, z) == <<x, y, z>>
Coords == (0 - PosRange)..PosRange
Positions == Coords \X Coords \X Coords

(***************************************************************************)
(* Scalar helpers                                                          *)
(***************************************************************************)
\* a cast that rounds away from zero
IntCastAway(num, den) ==
  IF num >= 0 THEN (num + den - 1) \div den ELSE 0 - ((0 - num + den - 1) \div den)

\* (int)(num/den) for den > 0: the C cast truncates toward zero
IntCast(num, den) == IF num >= 0 THEN num \div den ELSE 0 - ((0 - num) \div den)

\* clamp without the upper bound
clampLowOnly(x, lo, hi) == IF x < lo THEN lo ELSE x

\* OpenCL clamp(x, lo, hi) = min(max(x, lo), hi)
clamp(x, lo, hi) == IF x < lo THEN lo ELSE IF x > hi THEN hi ELSE x

\* float cellSizeInv = 1.0f / ((worldMax - worldMin) / gridN), kept as a ratio
cellSizeInv(gridN) == <<gridN, worldMax - worldMin>>

\* (int)((position - worldMin) * cellSizeInv); the inverse cell size is negative
\* when the world bounds are given with min > max
CellCast(p, wMin, inv) ==
  IF inv[2] > 0 THEN IntCast((p - wMin) * inv[1], inv[2])
  ELSE IntCast((wMin - p) * inv[1], 0 - inv[2])

(***************************************************************************)
(* Stage 1: computeParticleCellIndex, the value written for one particle   *)
(***************************************************************************)
computeParticleCellCoords(position, gNx, gNy, gNz, invX, invY, invZ, wMinX, wMinY, wMinZ) ==
  <<clamp(CellCast(position[1], wMinX, invX), 0, gNx - 1),
    clamp(CellCast(position[2], wMinY, invY), 0, gNy - 1),
    clamp(CellCast(position[3], wMinZ, invZ), 0, gNz - 1)>>

computeParticleCellIndex(position, gNx, gNy, gNz, invX, invY, invZ, wMinX, wMinY, wMinZ) ==
  LET c == computeParticleCellCoords(position, gNx, gNy, gNz, invX, invY, invZ, wMinX, wMinY, wMinZ)
  IN  c[1] + c[2] * gNx + c[3] * gNx * gNy

\* 2-D variant: reads posVel[pid].x, posVel[pid].y
computeParticleCellCoords2D(position, gNx, gNy, invX, invY, wMinX, wMinY) ==
  <<clamp(CellCast(position[1], wMinX, invX), 0, gNx - 1),
    clamp(CellCast(position[2], wMinY, invY), 0, gNy - 1)>>

computeParticleCellIndex2D(position, gNx, gNy, invX, invY, wMinX, wMinY) ==
  LET c == computeParticleCellCoords2D(position, gNx, gNy, invX, invY, wMinX, wMinY)
  IN  c[1] + c[2] * gNx

(***************************************************************************)
(* State of the cell-assignment harness: one work item of stage 1 run on   *)
(* an enumerated position and grid, for the 3-D and the 2-D kernel.        *)
(***************************************************************************)
VARIABLES kPos, kGrid, kIndex3, kIndex2, kRan

(***************************************************************************)
(* State of the 2-D pipeline harness: the three 2-D kernels run once on    *)
(* two particles                                                           *)
(***************************************************************************)
VARIABLE twoD

(***************************************************************************)
(* State of the reduction harness: one work-group of computeCellCOM,       *)
(* reduce_workgroup or hybrid_reduce, executed worker by worker            *)
(***************************************************************************)
VARIABLE wg

kvars == <<kPos, kGrid, kIndex3, kIndex2, kRan, twoD, wg>>

(***************************************************************************)
(* State of the 3-D program                                                *)
(***************************************************************************)
VARIABLES
  config,               \* grid and world members of MyApp: [grid, worldMin, worldMax]
  platforms,            \* per OpenCL platform: a context shared with the GL context can be created
  context,              \* platform whose context is held, 0 when none
  exitCode,             \* what main returned: "none" while it runs
  hostPc,               \* main's position: "initCL", "update", "finish", "render", "gui", "exit"
  frame,                \* main-loop iterations started
  simulation_paused,
  numParticles,         \* configured count (GUI)
  gravityConstant,      \* G (GUI)
  currentNumParticles,  \* active count
  kernelArgs,           \* scalar arguments bound to the three kernels
  frameTimes,           \* number of telemetry samples held
  pos, vel, masses,     \* particle buffers, capacity maxParticles
  particleCellIndex, cellMass, cellCOM,
  glAcquired,           \* the shared GL buffers are held by the compute queue
  queue,                \* in-order command queue
  running,              \* kernel being executed, or "idle"
  pending,              \* work items (stage 1, 3) or work-groups (stage 2) not yet started
  lane,                 \* private state of the work items of the update kernel
  tickLog               \* observations of the current tick

cvars == <<config, platforms, context>>
hvars == <<cvars, exitCode, hostPc, frame, simulation_paused, numParticles, gravityConstant,
           currentNumParticles, kernelArgs, frameTimes>>
bvars == <<pos, vel, masses, particleCellIndex, cellMass, cellCOM, glAcquired>>
dvars == <<queue, running, pending, lane, tickLog>>
pvars == <<hvars, bvars, dvars>>
vars == <<kvars, pvars>>

GridDims == 1..MaxGridCells

\* the program's variables in the kernel harnesses, which do not use them
ProgramOff ==
  /\ config = <<>> /\ platforms = <<>> /\ context = 0 /\ exitCode = "none"
  /\ hostPc = "off" /\ frame = 0 /\ simulation_paused = FALSE
  /\ numParticles = 0 /\ gravityConstant = 0 /\ currentNumParticles = 0
  /\ kernelArgs = <<>> /\ frameTimes = 0
  /\ pos = <<>> /\ vel = <<>> /\ masses = <<>>
  /\ particleCellIndex = <<>> /\ cellMass = <<>> /\ cellCOM = <<>> /\ glAcquired = FALSE
  /\ queue = <<>> /\ running = "idle" /\ pending = {} /\ lane = <<>> /\ tickLog = <<>>

\* contents of particleCellIndex[pid] before the kernel has ever run
StaleIndex == {0 - 1, MaxGridCells * MaxGridCells * MaxGridCells}

InitCell ==
  /\ kPos \in Positions
  /\ kGrid \in GridDims \X GridDims \X GridDims
  /\ kIndex3 \in StaleIndex
  /\ kIndex2 \in StaleIndex
  /\ kRan = {}
  /\ twoD = <<>> /\ wg = <<>>
  /\ ProgramOff

RunCellIndex3D ==
  /\ "3d" \notin kRan
  /\ kIndex3' = computeParticleCellIndex(kPos, kGrid[1], kGrid[2], kGrid[3],
                   cellSizeInv(kGrid[1]), cellSizeInv(kGrid[2]), cellSizeInv(kGrid[3]),
                   worldMin, worldMin, worldMin)
  /\ kRan' = kRan \cup {"3d"}
  /\ UNCHANGED <<kPos, kGrid, kIndex2, twoD, wg, pvars>>

RunCellIndex2D ==
  /\ "2d" \notin kRan
  /\ kIndex2' = computeParticleCellIndex2D(kPos, kGrid[1], kGrid[2],
                   cellSizeInv(kGrid[1]), cellSizeInv(kGrid[2]), worldMin, worldMin)
  /\ kRan' = kRan \cup {"2d"}
  /\ UNCHANGED <<kPos, kGrid, kIndex3, twoD, wg, pvars>>

NextCell == RunCellIndex3D \/ RunCellIndex2D

SpecCell == InitCell /\ [][NextCell]_vars

(***************************************************************************)
(* Bounds and scaled configuration of the 3-D program (MyApp.h)            *)
(***************************************************************************)
gridNx == 1
gridNy == 2
gridNz == 3
totalCells == gridNx * gridNy * gridNz
maxParticles == 3      \* buffer capacity
LogLocalSize == 1
localSize == 2 ^ LogLocalSize
globalParticles == ((maxParticles + localSize - 1) \div localSize) * localSize
globalCOM == totalCells * localSize
MaxFrames == 2         \* main-loop iterations explored, the last one up to its Render
FScale == 4            \* the float 1.0f in 1/sqrt(d2), in model units

softening == 1
InitGravity == 1
DtMin == 1
DtMax == 2
InitMass == 1
InitVelX == 0 - 2
MAX_HISTORY == 120

cellSizeInvX == cellSizeInv(gridNx)
cellSizeInvY == cellSizeInv(gridNy)
cellSizeInvZ == cellSizeInv(gridNz)

Zero3 == <<0, 0, 0>>
VAdd(a, b) == <<a[1] + b[1], a[2] + b[2], a[3] + b[3]>>
VSub(a, b) == <<a[1] - b[1], a[2] - b[2], a[3] - b[3]>>
VScale(a, k) == <<a[1] * k, a[2] * k, a[3] * k>>
Abs(x) == IF x < 0 THEN 0 - x ELSE x

\* float division a / b, rounding toward zero; b = 0 gives inf/NaN in the kernel,
\* which the model shows as the value DivByZero
DivByZero == 9999
FDiv(a, b) == IF b = 0 THEN DivByZero
              ELSE IF (a >= 0) = (b > 0) THEN Abs(a) \div Abs(b) ELSE 0 - (Abs(a) \div Abs(b))

\* 1.0f / sqrt(distanceSquared), distanceSquared >= softening
InvSqrt(d2) ==
  IF d2 >= (FScale + 1) * (FScale + 1) THEN 0
  ELSE FScale \div (CHOOSE r \in 1..FScale : r * r <= d2 /\ d2 < (r + 1) * (r + 1))

\* an integrator that moves the particle with the velocity it had before the tick
IntegrateDriftFirst(position, velocity, totalAcceleration, deltaTime) ==
  <<VAdd(position, VScale(velocity, deltaTime)),
    VAdd(velocity, VScale(totalAcceleration, deltaTime))>>

\* <<newPosition, newVelocity>>: newVelocity = velocity + totalAcceleration * deltaTime,
\* newPosition = position + newVelocity * deltaTime
Integrate(position, velocity, totalAcceleration, deltaTime) ==
  LET newVelocity == VAdd(velocity, VScale(totalAcceleration, deltaTime))
  IN  <<VAdd(position, VScale(newVelocity, deltaTime)), newVelocity>>

(***************************************************************************)
(* Stage 2: computeCellCOM, one work-group (= one cell)                    *)
(***************************************************************************)
\* particle ids visited by one worker: localId, localId + lSize, ...
StridedIds(localId, lSize, nParticles) ==
  {particleId \in 0..(nParticles - 1) : particleId >= localId /\ (particleId - localId) % lSize = 0}

\* private accumulators <<threadMass, threadCOMX, threadCOMY, threadCOMZ>> after the strided loop
RECURSIVE ThreadScan(_, _, _, _, _, _, _, _)
ThreadScan(particleId, lSize, nParticles, cellId, idx, ms, ps, acc) ==
  IF particleId >= nParticles THEN acc
  ELSE ThreadScan(particleId + lSize, lSize, nParticles, cellId, idx, ms, ps,
         IF idx[particleId] = cellId
         THEN <<acc[1] + ms[particleId],
                acc[2] + ps[particleId][1] * ms[particleId],
                acc[3] + ps[particleId][2] * ms[particleId],
                acc[4] + ps[particleId][3] * ms[particleId]>>
         ELSE acc)

\* a reduction that leaves every worker's partial sums where they are
ReduceStepSkipped(loc, offset) == loc

\* one halving step between two barriers: workers localId < offset add slot localId + offset
ReduceStep(loc, offset) ==
  [l \in DOMAIN loc |->
     IF l < offset
     THEN <<loc[l][1] + loc[l + offset][1], loc[l][2] + loc[l + offset][2],
            loc[l][3] + loc[l + offset][3], loc[l][4] + loc[l + offset][4]>>
     ELSE loc[l]]

\* for (offset = localSize >> 1; offset > 0; offset >>= 1)
RECURSIVE TreeReduce(_, _)
TreeReduce(loc, offset) ==
  IF offset > 0 THEN TreeReduce(ReduceStep(loc, offset), offset \div 2) ELSE loc

\* local memory after the reduction loop of group cellId
GroupLocal(cellId, lSize, nParticles, idx, ms, ps) ==
  TreeReduce([l \in 0..(lSize - 1) |->
                ThreadScan(l, lSize, nParticles, cellId, idx, ms, ps, <<0, 0, 0, 0>>)],
             lSize \div 2)

(***************************************************************************)
(* Stage 3: update, cell decoding and the two force passes                 *)
(***************************************************************************)
DecodeX(cellIndex, gNx) == cellIndex % gNx
DecodeY(cellIndex, gNx) == cellIndex \div gNx
DecodeZ(cellIndex, gNx, gNy) == (cellIndex \div gNx) \div gNy

\* dxCell <= 1 && dyCell <= 1 && dzCell <= 1
InNeighbourhood(cellIndex, myCellIndex, gNx, gNy) ==
  /\ Abs(DecodeX(cellIndex, gNx) - DecodeX(myCellIndex, gNx)) <= 1
  /\ Abs(DecodeY(cellIndex, gNx) - DecodeY(myCellIndex, gNx)) <= 1
  /\ Abs(DecodeZ(cellIndex, gNx, gNy) - DecodeZ(myCellIndex, gNx, gNy)) <= 1

\* direction * (G * mass * invDist^3)
PointAcceleration(position, sourcePos, G, mass) ==
  LET direction == VSub(sourcePos, position)
      distanceSquared == direction[1] * direction[1] + direction[2] * direction[2]
                           + direction[3] * direction[3] + softening
      invDist == InvSqrt(distanceSquared)
      invDistCube == invDist * invDist * invDist
  IN  VScale(direction, (G * mass) * invDistCube)

\* far-field contribution of one cell: its mass placed at cellCOM / cellMass
CellAcceleration(position, cellMassValue, com, G) ==
  PointAcceleration(position,
                    <<FDiv(com[1], cellMassValue), FDiv(com[2], cellMassValue),
                      FDiv(com[3], cellMassValue)>>,
                    G, cellMassValue)

\* a far-field iteration that does not skip the 3x3x3 neighbourhood
FarCellAnywhere(cellIndex, myCellIndex, cMass, gNx, gNy) == ~(cMass[cellIndex] <= 0)

\* a far-field iteration that does not skip empty cells
FarCellNoMassSkip(cellIndex, myCellIndex, cMass, gNx, gNy) ==
  ~InNeighbourhood(cellIndex, myCellIndex, gNx, gNy)

\* the far-field iteration of cellIndex passes both "continue" tests
FarCell(cellIndex, myCellIndex, cMass, gNx, gNy) ==
  ~(cMass[cellIndex] <= 0) /\ ~InNeighbourhood(cellIndex, myCellIndex, gNx, gNy)

\* cells the far-field loop uses
FarCells(myCellIndex, cMass, gNx, gNy, nCells) ==
  {cellIndex \in 0..(nCells - 1) : FarCell(cellIndex, myCellIndex, cMass, gNx, gNy)}

RECURSIVE FarLoop(_, _, _, _, _, _, _, _, _, _)
FarLoop(cellIndex, nCells, position, myCellIndex, cMass, cCOM, gNx, gNy, G, acc) ==
  IF cellIndex >= nCells THEN acc
  ELSE FarLoop(cellIndex + 1, nCells, position, myCellIndex, cMass, cCOM, gNx, gNy, G,
         IF FarCell(cellIndex, myCellIndex, cMass, gNx, gNy)
         THEN VAdd(acc, CellAcceleration(position, cMass[cellIndex], cCOM[cellIndex], G))
         ELSE acc)

(***************************************************************************)
(* The 3-D program: construction (InitGL, InitCL, ResetSimulation)         *)
(***************************************************************************)
Particles == 0..(maxParticles - 1)
Cells == 0..(totalCells - 1)
Lanes == 0..(globalParticles - 1)
Groups == 0..((globalCOM \div localSize) - 1)

\* positions a reset can produce (uniform / gaussian generators), a sample:
\* two points of one cell, one of which lies outside the world box, and
\* points of cells next to it, diagonal to it and two cells away from it
InitPositions ==
  <<(<<0, 0 - 1, 0 - PosRange>>), (<<0, 0 - 1, 0 - 1>>), (<<0, 1, 0 - 1>>),
    (<<0, 1, 0>>), (<<0, 0 - 1, 2>>)>>

\* sampled outcomes of a reset for n particles: consecutive sample points,
\* starting from any of them
Layout(n, s) == [i \in 0..(n - 1) |-> InitPositions[((i + s) % Len(InitPositions)) + 1]]

InitLayouts(n) == {Layout(n, s) : s \in 0..(Len(InitPositions) - 1)}

\* contents of device memory that nothing has written yet
Uninit == {0, 5}

\* velocities(currentNumParticles, vec3{}), every even index set to
\* (-cos(a)*1.7, sin(a)*1.7, sin(a)*0.3) with a a multiple of 2*pi for counts up to 5
ResetVelocity(i) == IF i % 2 = 0 THEN <<InitVelX, 0, 0>> ELSE Zero3

\* the release enqueued right after the acquire
PipelineReleaseEarly == <<"acquire", "release", "cellIndex", "computeCOM", "update">>

\* the two first kernels enqueued in the opposite order
PipelineSwapped == <<"acquire", "computeCOM", "cellIndex", "update", "release">>

PipelineOrder == <<"acquire", "cellIndex", "computeCOM", "update", "release">>

LaneIdle ==
  [pc |-> "wait", position |-> Zero3, velocity |-> Zero3, myCellIndex |-> 0, otherId |-> 0,
   totalAcceleration |-> Zero3, nearCount |-> [q \in Particles |-> 0],
   farCount |-> [c \in Cells |-> 0], divisors |-> {}]

NoTick ==
  [status |-> "none", gui |-> "none", delta |-> 0, fault |-> "none", launched |-> <<>>,
   started |-> [k \in {"cellIndex", "computeCOM", "update"} |-> {}],
   finished |-> [k \in {"cellIndex", "computeCOM", "update"} |-> {}],
   assigned |-> [p \in Particles |-> Zero3],
   reads |-> {}, writes |-> {},
   posAtUpdate |-> <<>>, velAtUpdate |-> <<>>, occupied |-> {}, drawn |-> 0]

\* the grid and world members as MyApp.h initialises them
DefaultConfig ==
  [grid |-> <<gridNx, gridNy, gridNz>>,
   worldMin |-> <<worldMin, worldMin, worldMin>>,
   worldMax |-> <<worldMax, worldMax, worldMax>>]

\* cellSizeInvX/Y/Z of a configuration: 1.0f / ((worldMax - worldMin) / gridN), kept as a ratio
ConfigCellSizeInv(cfg) ==
  [axis \in 1..3 |-> <<cfg.grid[axis], cfg.worldMax[axis] - cfg.worldMin[axis]>>]

\* kernel arguments before any setArg
UnsetArgs ==
  [gridNx |-> 0, gridNy |-> 0, gridNz |-> 0, cellSizeInv |-> <<>>, worldMin |-> <<>>,
   totalCells |-> 0, cellIndexN |-> 0, comN |-> 0, updateN |-> 0, G |-> 0, deltaTime |-> 0]

\* the setArg calls of InitCL; G and deltaTime are bound in Update
BoundArgs(cfg, n) ==
  [gridNx |-> cfg.grid[1], gridNy |-> cfg.grid[2], gridNz |-> cfg.grid[3],
   cellSizeInv |-> ConfigCellSizeInv(cfg), worldMin |-> cfg.worldMin,
   totalCells |-> cfg.grid[1] * cfg.grid[2] * cfg.grid[3],
   cellIndexN |-> n, comN |-> n, updateN |-> n, G |-> 0, deltaTime |-> 0]

\* a reset that forgets the particle count of the update kernel
ResetArgsStale(args, n) == [args EXCEPT !.cellIndexN = n, !.comN = n]

\* a reset that rebuilds the grid for the particle count
ResetArgsRegrid(args, n) ==
  [args EXCEPT !.cellIndexN = n, !.comN = n, !.updateN = n, !.gridNz = n, !.totalCells = n]

\* the three setArg calls that end ResetSimulation
ResetArgs(args, n) == [args EXCEPT !.cellIndexN = n, !.comN = n, !.updateN = n]

\* currentNumParticles = numParticles
ResetCount(configured, current) == configured

\* how a call of ResetSimulation goes: the blocking write of the masses throws
\* a cl::Error, or glMapBuffer returns null for the position buffer, for the
\* velocity buffer or for both
ResetOutcomes == {"ok", "writeThrows", "posUnmapped", "velUnmapped", "noneMapped"}

\* if (glm::vec3* ptr = glMapBuffer(...)) { std::copy(...); glUnmapBuffer(...); }
\* the upload into the buffer takes place when the mapping succeeds
Uploaded(outcome, buffer) ==
  \/ outcome = "ok"
  \/ buffer = "pos" /\ outcome = "velUnmapped"
  \/ buffer = "vel" /\ outcome = "posUnmapped"

\* ResetSimulation: the first currentNumParticles records of the mass, velocity
\* and position buffers are rewritten, then the particle-count arguments are
\* set; an exception of the mass write leaves the function after the count
\* has been assigned
ResetSimulation(args, outcome) ==
  LET n == ResetCount(numParticles, currentNumParticles)
  IN  \E ps \in InitLayouts(n) :
        /\ currentNumParticles' = n
        /\ IF outcome = "writeThrows"
           THEN /\ kernelArgs' = args
                /\ UNCHANGED <<masses, vel, pos>>
           ELSE /\ masses' = [i \in Particles |-> IF i < n THEN InitMass ELSE masses[i]]
                /\ vel' = IF Uploaded(outcome, "vel")
                          THEN [i \in Particles |-> IF i < n THEN ResetVelocity(i) ELSE vel[i]]
                          ELSE vel
                /\ pos' = IF Uploaded(outcome, "pos")
                          THEN [i \in Particles |-> IF i < n THEN ps[i] ELSE pos[i]]
                          ELSE pos
                /\ kernelArgs' = ResetArgs(args, n)

\* the state main is in when it calls InitCL: MyApp constructed, InitGL done
Constructed(cfg, plats, n, fill) ==
  /\ config = cfg /\ platforms = plats /\ context = 0 /\ exitCode = "none"
  /\ hostPc = "initCL" /\ frame = 0 /\ simulation_paused = FALSE
  /\ numParticles = n /\ gravityConstant = InitGravity /\ currentNumParticles = n
  /\ kernelArgs = UnsetArgs
  /\ frameTimes = 0
  /\ pos = [i \in Particles |-> <<fill, fill, fill>>]
  /\ vel = [i \in Particles |-> <<fill, fill, fill>>]
  /\ masses = [i \in Particles |-> fill]
  /\ particleCellIndex = [i \in Particles |-> fill]
  /\ cellMass = [c \in Cells |-> fill]
  /\ cellCOM = [c \in Cells |-> <<fill, fill, fill>>]
  /\ glAcquired = FALSE
  /\ queue = <<>> /\ running = "idle" /\ pending = {}
  /\ lane = [l \in Lanes |-> LaneIdle]
  /\ tickLog = NoTick

\* the state after InitCL has returned: the main loop is about to call Update,
\* n particles are active with the given positions and velocities
InitProgram(n, ps, vs, fill) ==
  /\ config = DefaultConfig /\ platforms = <<TRUE>> /\ context = 1 /\ exitCode = "none"
  /\ hostPc = "update" /\ frame = 0 /\ simulation_paused = FALSE
  /\ numParticles = n /\ gravityConstant = InitGravity /\ currentNumParticles = n
  /\ kernelArgs = BoundArgs(DefaultConfig, n)
  /\ frameTimes = 0
  /\ pos = [i \in Particles |-> IF i < n THEN ps[i] ELSE <<fill, fill, fill>>]
  /\ vel = [i \in Particles |-> IF i < n THEN vs[i] ELSE <<fill, fill, fill>>]
  /\ masses = [i \in Particles |-> IF i < n THEN InitMass ELSE fill]
  /\ particleCellIndex = [i \in Particles |-> fill]
  /\ cellMass = [c \in Cells |-> fill]
  /\ cellCOM = [c \in Cells |-> <<fill, fill, fill>>]
  /\ glAcquired = FALSE
  /\ queue = <<>> /\ running = "idle" /\ pending = {}
  /\ lane = [l \in Lanes |-> LaneIdle]
  /\ tickLog = NoTick

KernelOff ==
  /\ kPos = Zero3 /\ kGrid = <<1, 1, 1>> /\ kIndex3 = 0 /\ kIndex2 = 0 /\ kRan = {}
  /\ twoD = <<>> /\ wg = <<>>

\* platform lists of the machine: the first platform shares with GL, or none does
Machines == {<<TRUE>>, <<FALSE>>}

Init ==
  /\ KernelOff
  /\ \E n \in 2..maxParticles, fill \in Uninit, plats \in Machines :
       Constructed(DefaultConfig, plats, n, fill)

(***************************************************************************)
(* Startup: main calls InitCL; a cl::Error leaves main through its catch   *)
(***************************************************************************)
\* a context creation that gives up when the first platform throws
oclCreateContextFirstPlatformOnly(plats) == IF Len(plats) >= 1 /\ plats[1] THEN 1 ELSE 0

\* index of the first platform on which cl::Context(CL_DEVICE_TYPE_GPU, props)
\* does not throw, 0 (return false) when it throws on every platform
oclCreateContextFromCurrentGLContext(plats) ==
  IF \E i \in 1..Len(plats) : plats[i]
  THEN CHOOSE i \in 1..Len(plats) : plats[i] /\ \A j \in 1..(i - 1) : ~plats[j]
  ELSE 0

\* the step of InitCL after the context that throws, if any
InitFaults == {"none", "build", "kernel", "buffer"}

\* a handler that swallows the error
MainCatchSwallows == "none"

\* main's catch (const cl::Error&): return EXIT_FAILURE
MainCatch == "EXIT_FAILURE"

InitCL(fault) ==
  /\ hostPc = "initCL"
  /\ context' = oclCreateContextFromCurrentGLContext(platforms)
  /\ IF context' = 0 \/ fault # "none"
     THEN /\ hostPc' = "exit" /\ exitCode' = MainCatch
          /\ tickLog' = [tickLog EXCEPT !.fault = IF context' = 0 THEN "context" ELSE fault]
          /\ UNCHANGED <<currentNumParticles, kernelArgs, masses, vel, pos>>
     ELSE /\ hostPc' = "update"
          /\ ResetSimulation(BoundArgs(config, currentNumParticles), "ok")
          /\ UNCHANGED <<exitCode, tickLog>>
  /\ UNCHANGED <<config, platforms, frame, simulation_paused, numParticles, gravityConstant,
                 frameTimes, particleCellIndex, cellMass, cellCOM, glAcquired,
                 queue, running, pending, lane, kvars>>

(***************************************************************************)
(* Host: MyApp::Update, Render, RenderGUI as called by mainLoop            *)
(***************************************************************************)
\* addSample: pop_front when MAX_HISTORY samples are held, then push_back
addSample(n) == IF n >= MAX_HISTORY THEN n ELSE n + 1

\* frame delta the main loop supplies (16 ms at VSync), in model units: above DtMax
FrameDeltas == {DtMax + 1}

\* the enqueue call of Update that throws (its position in the pipeline), 0 when none does
EnqueueFaults == 0..Len(PipelineOrder)

\* an Update that goes on enqueueing after a call has thrown
EnqueuedBeforeAll(failAt) == PipelineOrder

\* the commands Update has enqueued when the call at failAt throws
EnqueuedBefore(failAt) ==
  IF failAt = 0 THEN PipelineOrder ELSE SubSeq(PipelineOrder, 1, failAt - 1)

\* a clamp of the frame delta that only bounds it from above
clampDeltaHighOnly(deltaTimeSec) == IF deltaTimeSec > DtMax THEN DtMax ELSE deltaTimeSec

\* std::clamp(info.deltaTimeSec, 0.0000001f, 0.001f)
clampDelta(deltaTimeSec) == clamp(deltaTimeSec, DtMin, DtMax)

\* a tick that runs the pipeline whatever the pause flag says
TickRunsAlways == TRUE

\* if (!simulation_paused)
TickRuns == ~simulation_paused

\* Update up to the blocking queue.finish(), or up to the enqueue call that throws
Update(deltaTimeSec, failAt) ==
  /\ hostPc = "update" /\ frame < MaxFrames
  /\ ~TickRuns => failAt = 0
  /\ frame' = frame + 1
  /\ IF TickRuns
     THEN /\ kernelArgs' = [kernelArgs EXCEPT !.G = gravityConstant,
                                              !.deltaTime = clampDelta(deltaTimeSec)]
          /\ queue' = queue \o EnqueuedBefore(failAt)
          /\ tickLog' = [NoTick EXCEPT !.status = IF failAt = 0 THEN "running" ELSE "failed",
                                       !.gui = tickLog.gui,
                                       !.delta = deltaTimeSec,
                                       !.fault = IF failAt = 0 THEN "none" ELSE PipelineOrder[failAt],
                                       !.occupied = tickLog.occupied]
          /\ hostPc' = IF failAt = 0 THEN "finish" ELSE "exit"
          /\ exitCode' = IF failAt = 0 THEN exitCode ELSE MainCatch
          /\ UNCHANGED frameTimes
     ELSE /\ frameTimes' = addSample(frameTimes)
          /\ tickLog' = [tickLog EXCEPT !.status = "skipped", !.delta = deltaTimeSec]
          /\ hostPc' = "render"
          /\ UNCHANGED <<kernelArgs, queue, exitCode>>
  /\ UNCHANGED <<cvars, simulation_paused, numParticles, gravityConstant, currentNumParticles,
                 bvars, running, pending, lane, kvars>>

\* a finish that returns while commands are still queued or running
FinishReturnsEarly == TRUE

\* queue.finish() blocks until the device has drained the queue
FinishReturns == queue = <<>> /\ running = "idle"

\* queue.finish() has returned; then the samples are added
UpdateFinish ==
  /\ hostPc = "finish" /\ FinishReturns
  /\ frameTimes' = addSample(frameTimes)
  /\ tickLog' = [tickLog EXCEPT !.status = "done"]
  /\ hostPc' = "render"
  /\ UNCHANGED <<cvars, exitCode, frame, simulation_paused, numParticles, gravityConstant,
                 currentNumParticles, kernelArgs, bvars, queue, running, pending, lane, kvars>>

\* queue.finish() throws: the command at the head of the queue fails on the
\* device instead of running; the exception leaves Update, mainLoop and main
UpdateFinishThrows ==
  /\ hostPc = "finish" /\ running = "idle" /\ queue # <<>>
  /\ hostPc' = "exit" /\ exitCode' = MainCatch
  /\ tickLog' = [tickLog EXCEPT !.status = "failed", !.fault = "finish"]
  /\ UNCHANGED <<queue, running, pending, lane>>
  /\ UNCHANGED <<cvars, frame, simulation_paused, numParticles, gravityConstant,
                 currentNumParticles, kernelArgs, frameTimes, bvars, kvars>>

\* the draw call takes the configured count instead of the active one
DrawCountConfigured == numParticles

\* the vertex count of glDrawArrays(GL_POINTS, 0, currentNumParticles)
DrawCount == currentNumParticles

\* draws currentNumParticles points from the position buffer
Render ==
  /\ hostPc = "render"
  /\ hostPc' = "gui"
  /\ tickLog' = [tickLog EXCEPT !.drawn = DrawCount]
  /\ UNCHANGED <<queue, running, pending, lane>>
  /\ UNCHANGED <<cvars, exitCode, frame, simulation_paused, numParticles, gravityConstant,
                 currentNumParticles, kernelArgs, frameTimes, bvars, kvars>>

\* values the "G (gravity)" slider is dragged to
GravityValues == {InitGravity, 2 * InitGravity}

\* the widget the user operates during one GUI frame, if any (tickLog.gui keeps
\* the one of the latest GUI frame)
GuiInputs == {"none", "gravity", "particles", "pause", "reset"}

\* RenderGUI: the sliders, the pause checkbox and the reset button, which calls
\* ResetSimulation
RenderGUI(input, outcome) ==
  LET thrown == input = "reset" /\ outcome = "writeThrows"
  IN  /\ hostPc = "gui"
      /\ hostPc' = (IF thrown THEN "exit" ELSE "update")
      /\ exitCode' = (IF thrown THEN MainCatch ELSE exitCode)
      /\ gravityConstant' \in (IF input = "gravity" THEN GravityValues \ {gravityConstant}
                                ELSE {gravityConstant})
      /\ numParticles' \in (IF input = "particles" THEN (2..maxParticles) \ {numParticles}
                             ELSE {numParticles})
      /\ simulation_paused' = (IF input = "pause" THEN ~simulation_paused ELSE simulation_paused)
      /\ IF input = "reset"
         THEN ResetSimulation(kernelArgs, outcome)
         ELSE UNCHANGED <<currentNumParticles, masses, vel, pos, kernelArgs>>
      /\ tickLog' = [tickLog EXCEPT !.gui = input, !.fault = IF thrown THEN "reset" ELSE @]
      /\ UNCHANGED <<cvars, frame, frameTimes, particleCellIndex, cellMass, cellCOM,
                     glAcquired, queue, running, pending, lane, kvars>>

\* the GUI frame of an iteration that is followed by another one, its reset
\* undisturbed
mainLoopGUI(input) == frame < MaxFrames /\ RenderGUI(input, "ok")

(***************************************************************************)
(* Device: the in-order queue runs one command at a time.  Once main has   *)
(* returned the process is over and the queue is served no more.           *)
(***************************************************************************)
\* the process is alive and the device idle: the command at the head of the queue starts
QueueServed == exitCode = "none" /\ running = "idle" /\ queue # <<>>

Launch(cmd) == [tickLog EXCEPT !.launched = Append(@, cmd), !.reads = {}, !.writes = {}]

AcquireGLObjects ==
  /\ QueueServed /\ Head(queue) = "acquire"
  /\ queue' = Tail(queue)
  /\ glAcquired' = TRUE
  /\ tickLog' = Launch("acquire")
  /\ UNCHANGED <<hvars, pos, vel, masses, particleCellIndex, cellMass, cellCOM, running, pending, lane, kvars>>

ReleaseGLObjects ==
  /\ QueueServed /\ Head(queue) = "release"
  /\ queue' = Tail(queue)
  /\ glAcquired' = FALSE
  /\ tickLog' = Launch("release")
  /\ UNCHANGED <<hvars, pos, vel, masses, particleCellIndex, cellMass, cellCOM, running, pending, lane, kvars>>

\* enqueueNDRangeKernel reaches the head of the queue: its work items become runnable
LaunchKernel ==
  /\ QueueServed /\ Head(queue) \in {"cellIndex", "computeCOM", "update"}
  /\ queue' = Tail(queue)
  /\ running' = Head(queue)
  /\ pending' = IF Head(queue) = "computeCOM" THEN Groups ELSE Lanes
  /\ lane' = [l \in Lanes |-> LaneIdle]
  /\ tickLog' = [Launch(Head(queue)) EXCEPT !.posAtUpdate = pos, !.velAtUpdate = vel]
  /\ UNCHANGED <<hvars, bvars, kvars>>

\* the kernel command completes when every work item has returned
KernelComplete ==
  /\ running # "idle" /\ pending = {}
  /\ \A l \in Lanes : lane[l].pc \in {"wait", "done"}
  /\ running' = "idle"
  /\ tickLog' = IF running = "computeCOM"
                THEN [tickLog EXCEPT !.occupied = @ \cup
                        {c \in Cells : \E p \in Particles :
                            p < kernelArgs.comN /\ particleCellIndex[p] = c}]
                ELSE tickLog
  /\ UNCHANGED <<hvars, bvars, queue, pending, lane, kvars>>

Started(k, w) == [tickLog EXCEPT !.started[k] = @ \cup {w}]
Finished(log, k, w) == [log EXCEPT !.finished[k] = @ \cup {w}]

\* no work item returns at the guard
BeyondCountNever(id, nParticles) == FALSE

\* the guard at the top of computeParticleCellIndex and of update:
\* if (id >= numParticles) return;
BeyondCount(id, nParticles) == id >= nParticles

(***************************************************************************)
(* Stage 1 work item.  It reads pos[pid] and writes particleCellIndex[pid] *)
(* only, slots no other work item of the kernel touches, so the work items *)
(* are run in index order.                                                 *)
(***************************************************************************)
computeParticleCellIndexItem(pid) ==
  /\ running = "cellIndex" /\ pid \in pending
  /\ \A l \in pending : pid <= l
  /\ pending' = pending \ {pid}
  /\ IF BeyondCount(pid, kernelArgs.cellIndexN)
     THEN /\ tickLog' = Finished(Started("cellIndex", pid), "cellIndex", pid)
          /\ UNCHANGED particleCellIndex
     ELSE /\ particleCellIndex' = [particleCellIndex EXCEPT ![pid] =
               computeParticleCellIndex(pos[pid],
                  kernelArgs.gridNx, kernelArgs.gridNy, kernelArgs.gridNz,
                  kernelArgs.cellSizeInv[1], kernelArgs.cellSizeInv[2], kernelArgs.cellSizeInv[3],
                  kernelArgs.worldMin[1], kernelArgs.worldMin[2], kernelArgs.worldMin[3])]
          /\ tickLog' = [Finished(Started("cellIndex", pid), "cellIndex", pid) EXCEPT
               !.assigned[pid] = computeParticleCellCoords(pos[pid],
                  kernelArgs.gridNx, kernelArgs.gridNy, kernelArgs.gridNz,
                  kernelArgs.cellSizeInv[1], kernelArgs.cellSizeInv[2], kernelArgs.cellSizeInv[3],
                  kernelArgs.worldMin[1], kernelArgs.worldMin[2], kernelArgs.worldMin[3]),
               !.reads = @ \cup {<<"pos", pid, pid>>},
               !.writes = @ \cup {<<"particleCellIndex", pid, pid>>}]
  /\ UNCHANGED <<hvars, pos, vel, masses, cellMass, cellCOM, glAcquired, queue, running, lane, kvars>>

(***************************************************************************)
(* Stage 2 work-group: its localSize workers scan, reduce between          *)
(* barriers, and worker 0 stores the cell's sums                           *)
(***************************************************************************)
GroupReads(cellId, nParticles) ==
  UNION {UNION {{<<"particleCellIndex", p, cellId * localSize + l>>} \cup
                (IF particleCellIndex[p] = cellId
                 THEN {<<"masses", p, cellId * localSize + l>>, <<"pos", p, cellId * localSize + l>>}
                 ELSE {}) : p \in StridedIds(l, localSize, nParticles)} : l \in 0..(localSize - 1)}

computeCellCOMGroup(cellId) ==
  /\ running = "computeCOM" /\ cellId \in pending
  /\ \A g \in pending : cellId <= g
  /\ pending' = pending \ {cellId}
  /\ IF cellId >= kernelArgs.totalCells
     THEN /\ tickLog' = Finished(Started("computeCOM", cellId), "computeCOM", cellId)
          /\ UNCHANGED <<cellMass, cellCOM>>
     ELSE LET loc == GroupLocal(cellId, localSize, kernelArgs.comN, particleCellIndex, masses, pos)
          IN  /\ cellMass' = [cellMass EXCEPT ![cellId] = loc[0][1]]
              /\ cellCOM' = [cellCOM EXCEPT ![cellId] = <<loc[0][2], loc[0][3], loc[0][4]>>]
              /\ tickLog' = [Finished(Started("computeCOM", cellId), "computeCOM", cellId) EXCEPT
                   !.reads = @ \cup GroupReads(cellId, kernelArgs.comN),
                   !.writes = @ \cup {<<"cellMass", cellId, cellId * localSize>>,
                                      <<"cellCOM", cellId, cellId * localSize>>}]
  /\ UNCHANGED <<hvars, pos, vel, masses, particleCellIndex, glAcquired, queue, running, lane, kvars>>

(***************************************************************************)
(* Stage 3 work item.  A work item is run in steps that each end just      *)
(* before its next read of another particle's position (the only slots a   *)
(* different work item of this kernel writes): updateBegin loads the own   *)
(* state, updateNear is one exact-force iteration, updateFar is the        *)
(* far-field loop, the integration and the store.  Iterations of the       *)
(* near-field loop that do not read a position run inside the step that    *)
(* precedes them.  updateBegin touches no slot another work item writes,   *)
(* so the work items begin in index order; their later steps interleave    *)
(* freely.                                                                 *)
(***************************************************************************)
\* otherId of the next iteration >= from that passes the neighbourhood test, or nParticles
NextNear(from, particleId, myCellIndex, nParticles) ==
  LET hits == {otherId \in from..(nParticles - 1) :
                 /\ otherId # particleId
                 /\ InNeighbourhood(particleCellIndex[otherId], myCellIndex,
                                    kernelArgs.gridNx, kernelArgs.gridNy)}
  IN  IF hits = {} THEN nParticles ELSE CHOOSE o \in hits : \A h \in hits : o <= h

\* cell indices the iterations from..upTo read
IndexReads(from, upTo, particleId, nParticles) ==
  {<<"particleCellIndex", otherId, particleId>> :
     otherId \in {o \in from..upTo : o # particleId /\ o < nParticles}}

updateBegin(particleId) ==
  /\ running = "update" /\ particleId \in pending
  /\ \A l \in pending : particleId <= l
  /\ pending' = pending \ {particleId}
  /\ IF BeyondCount(particleId, kernelArgs.updateN)
     THEN /\ lane' = [lane EXCEPT ![particleId].pc = "done"]
          /\ tickLog' = Finished(Started("update", particleId), "update", particleId)
     ELSE LET first == NextNear(0, particleId, particleCellIndex[particleId], kernelArgs.updateN)
          IN  /\ lane' = [lane EXCEPT ![particleId] =
                        [LaneIdle EXCEPT !.pc = IF first < kernelArgs.updateN THEN "near" ELSE "far",
                                         !.position = pos[particleId],
                                         !.velocity = vel[particleId],
                                         !.myCellIndex = particleCellIndex[particleId],
                                         !.otherId = first]]
              /\ tickLog' = [Started("update", particleId) EXCEPT
                   !.reads = @ \cup {<<"pos", particleId, particleId>>, <<"vel", particleId, particleId>>,
                                     <<"masses", particleId, particleId>>,
                                     <<"particleCellIndex", particleId, particleId>>}
                               \cup IndexReads(0, first, particleId, kernelArgs.updateN)]
  /\ UNCHANGED <<hvars, bvars, queue, running, kvars>>

updateNear(particleId) ==
  LET me == lane[particleId]
      otherId == me.otherId
      next == NextNear(otherId + 1, particleId, me.myCellIndex, kernelArgs.updateN)
  IN  /\ running = "update" /\ me.pc = "near"
      /\ lane' = [lane EXCEPT ![particleId] =
                    [me EXCEPT !.totalAcceleration =
                                  VAdd(@, PointAcceleration(me.position, pos[otherId],
                                                            kernelArgs.G, masses[otherId])),
                               !.nearCount[otherId] = @ + 1,
                               !.otherId = next,
                               !.pc = IF next < kernelArgs.updateN THEN "near" ELSE "far"]]
      /\ tickLog' = [tickLog EXCEPT !.reads = @ \cup
            {<<"pos", otherId, particleId>>, <<"masses", otherId, particleId>>}
            \cup IndexReads(otherId + 1, next, particleId, kernelArgs.updateN)]
      /\ UNCHANGED <<hvars, bvars, queue, running, pending, kvars>>

updateFar(particleId) ==
  LET me == lane[particleId]
      far == FarCells(me.myCellIndex, cellMass, kernelArgs.gridNx, kernelArgs.gridNy,
                      kernelArgs.totalCells)
      totalAcceleration == FarLoop(0, kernelArgs.totalCells, me.position, me.myCellIndex,
                                   cellMass, cellCOM, kernelArgs.gridNx, kernelArgs.gridNy,
                                   kernelArgs.G, me.totalAcceleration)
      newVelocity == Integrate(me.position, me.velocity, totalAcceleration,
                               kernelArgs.deltaTime)[2]
      newPosition == Integrate(me.position, me.velocity, totalAcceleration,
                               kernelArgs.deltaTime)[1]
  IN  /\ running = "update" /\ me.pc = "far"
      /\ pos' = [pos EXCEPT ![particleId] = newPosition]
      /\ vel' = [vel EXCEPT ![particleId] = newVelocity]
      /\ lane' = [lane EXCEPT ![particleId] =
                    [me EXCEPT !.pc = "done", !.totalAcceleration = totalAcceleration,
                               !.farCount = [c \in Cells |-> IF c \in far THEN 1 ELSE 0],
                               !.divisors = {cellMass[c] : c \in far}]]
      /\ tickLog' = [Finished(tickLog, "update", particleId) EXCEPT
            !.reads = @ \cup {<<"cellMass", c, particleId>> : c \in 0..(kernelArgs.totalCells - 1)}
                        \cup {<<"cellCOM", c, particleId>> : c \in far},
            !.writes = @ \cup {<<"pos", particleId, particleId>>, <<"vel", particleId, particleId>>}]
      /\ UNCHANGED <<hvars, masses, particleCellIndex, cellMass, cellCOM, glAcquired,
                     queue, running, pending, kvars>>

Next ==
  \/ \E fault \in InitFaults : InitCL(fault)
  \/ \E d \in FrameDeltas, failAt \in EnqueueFaults : Update(d, failAt)
  \/ UpdateFinish
  \/ UpdateFinishThrows
  \/ Render
  \/ \E input \in GuiInputs : mainLoopGUI(input)
  \/ AcquireGLObjects
  \/ ReleaseGLObjects
  \/ LaunchKernel
  \/ KernelComplete
  \/ \E pid \in Lanes : computeParticleCellIndexItem(pid)
  \/ \E cellId \in Groups : computeCellCOMGroup(cellId)
  \/ \E particleId \in Lanes : updateBegin(particleId)
  \/ \E particleId \in Lanes : updateNear(particleId)
  \/ \E particleId \in Lanes : updateFar(particleId)

Spec == Init /\ [][Next]_vars

(***************************************************************************)
(* The symmetric two-body test: equal masses at +a and -a, at rest         *)
(***************************************************************************)
SymOffsets == {<<0, 1, 0>>, <<1, 0, 0>>, <<0, 1, 2>>, <<1, 1, 0 - PosRange>>}

InitSym ==
  /\ KernelOff
  /\ \E a \in SymOffsets, fill \in Uninit :
       InitProgram(2, [i \in 0..1 |-> IF i = 0 THEN a ELSE VScale(a, 0 - 1)],
                   [i \in 0..1 |-> Zero3], fill)

\* the test leaves the GUI alone
NextSym ==
  \/ \E d \in FrameDeltas : Update(d, 0)
  \/ UpdateFinish
  \/ Render
  \/ mainLoopGUI("none")
  \/ AcquireGLObjects
  \/ ReleaseGLObjects
  \/ LaunchKernel
  \/ KernelComplete
  \/ \E pid \in Lanes : computeParticleCellIndexItem(pid)
  \/ \E cellId \in Groups : computeCellCOMGroup(cellId)
  \/ \E particleId \in Lanes : updateBegin(particleId)
  \/ \E particleId \in Lanes : updateNear(particleId)
  \/ \E particleId \in Lanes : updateFar(particleId)

SpecSym == InitSym /\ [][NextSym]_vars

(***************************************************************************)
(* Startup on machines with up to MaxPlatforms OpenCL platforms            *)
(***************************************************************************)
MaxPlatforms == 2

PlatformLists == UNION {[1..k -> BOOLEAN] : k \in 0..MaxPlatforms}

InitStartup ==
  /\ KernelOff
  /\ \E plats \in PlatformLists : Constructed(DefaultConfig, plats, 2, 0)

\* startup followed by the main loop, without device faults in the ticks and with
\* the GUI left alone
NextStartup ==
  \/ \E fault \in InitFaults : InitCL(fault)
  \/ \E d \in FrameDeltas : Update(d, 0)
  \/ UpdateFinish
  \/ Render
  \/ mainLoopGUI("none")
  \/ AcquireGLObjects
  \/ ReleaseGLObjects
  \/ LaunchKernel
  \/ KernelComplete
  \/ \E pid \in Lanes : computeParticleCellIndexItem(pid)
  \/ \E cellId \in Groups : computeCellCOMGroup(cellId)
  \/ \E particleId \in Lanes : updateBegin(particleId)
  \/ \E particleId \in Lanes : updateNear(particleId)
  \/ \E particleId \in Lanes : updateFar(particleId)

SpecStartup == InitStartup /\ [][NextStartup]_vars

(***************************************************************************)
(* Builds of MyApp.h with other world bounds                               *)
(***************************************************************************)
\* the shipped configuration and one with worldMinX > worldMaxX
Configs ==
  {DefaultConfig,
   [DefaultConfig EXCEPT !.worldMin[1] = worldMax, !.worldMax[1] = worldMin]}

InitConfig ==
  /\ KernelOff
  /\ \E cfg \in Configs, n \in 2..maxParticles : Constructed(cfg, <<TRUE>>, n, 0)

SpecConfig == InitConfig /\ [][Next]_vars

(***************************************************************************)
(* The main loop with GUI input in every frame, the last one included, and *)
(* no device faults                                                        *)
(***************************************************************************)
InitGui ==
  /\ KernelOff
  /\ \E n \in 2..maxParticles, fill \in Uninit :
       InitProgram(n, Layout(n, 0), [i \in 0..(n - 1) |-> ResetVelocity(i)], fill)

NextGui ==
  \/ \E d \in FrameDeltas : Update(d, 0)
  \/ UpdateFinish
  \/ Render
  \/ \E input \in GuiInputs : RenderGUI(input, "ok")
  \/ AcquireGLObjects
  \/ ReleaseGLObjects
  \/ LaunchKernel
  \/ KernelComplete
  \/ \E pid \in Lanes : computeParticleCellIndexItem(pid)
  \/ \E cellId \in Groups : computeCellCOMGroup(cellId)
  \/ \E particleId \in Lanes : updateBegin(particleId)
  \/ \E particleId \in Lanes : updateNear(particleId)
  \/ \E particleId \in Lanes : updateFar(particleId)

SpecGui == InitGui /\ [][NextGui]_vars

(***************************************************************************)
(* The main loop with resets that meet a mapping failure or an exception   *)
(***************************************************************************)
ResetInputs == {"none", "particles", "reset"}

NextReset ==
  \/ \E d \in FrameDeltas : Update(d, 0)
  \/ UpdateFinish
  \/ Render
  \/ \E input \in ResetInputs, outcome \in ResetOutcomes : RenderGUI(input, outcome)
  \/ AcquireGLObjects
  \/ ReleaseGLObjects
  \/ LaunchKernel
  \/ KernelComplete
  \/ \E pid \in Lanes : computeParticleCellIndexItem(pid)
  \/ \E cellId \in Groups : computeCellCOMGroup(cellId)
  \/ \E particleId \in Lanes : updateBegin(particleId)
  \/ \E particleId \in Lanes : updateNear(particleId)
  \/ \E particleId \in Lanes : updateFar(particleId)

SpecReset == InitGui /\ [][NextReset]_vars

(***************************************************************************)
(* Frame deltas of every kind: negative, zero, inside the clamp range,     *)
(* above it                                                                *)
(***************************************************************************)
AllDeltas == {0 - 1, 0, DtMin, DtMax, DtMax + 1}

InitDelta ==
  /\ KernelOff
  /\ \E fill \in Uninit :
       InitProgram(2, Layout(2, 0), [i \in 0..1 |-> ResetVelocity(i)], fill)

NextDelta ==
  \/ \E d \in AllDeltas : Update(d, 0)
  \/ UpdateFinish
  \/ Render
  \/ mainLoopGUI("none")
  \/ AcquireGLObjects
  \/ ReleaseGLObjects
  \/ LaunchKernel
  \/ KernelComplete
  \/ \E pid \in Lanes : computeParticleCellIndexItem(pid)
  \/ \E cellId \in Groups : computeCellCOMGroup(cellId)
  \/ \E particleId \in Lanes : updateBegin(particleId)
  \/ \E particleId \in Lanes : updateNear(particleId)
  \/ \E particleId \in Lanes : updateFar(particleId)

SpecDelta == InitDelta /\ [][NextDelta]_vars

(***************************************************************************)
(* The 2-D kernels (computeParticleCellIndex, computeCellCOM, update on    *)
(* float4 posVel records).  A 2-D position is held as <<x, y, 0>>.         *)
(***************************************************************************)
MaxGrid2D == 4

\* a neighbourhood test that leaves out the diagonal cells
InNeighbourhood2DCross(cellIndex, myCellIndex, gNx) ==
  Abs((cellIndex % gNx) - (myCellIndex % gNx))
    + Abs((cellIndex \div gNx) - (myCellIndex \div gNx)) <= 1

\* dxCell <= 1 && dyCell <= 1
InNeighbourhood2D(cellIndex, myCellIndex, gNx) ==
  /\ Abs((cellIndex % gNx) - (myCellIndex % gNx)) <= 1
  /\ Abs((cellIndex \div gNx) - (myCellIndex \div gNx)) <= 1

FarCell2D(cellIndex, myCellIndex, cMass, gNx) ==
  ~(cMass[cellIndex] <= 0) /\ ~InNeighbourhood2D(cellIndex, myCellIndex, gNx)

FarCells2D(myCellIndex, cMass, gNx, nCells) ==
  {cellIndex \in 0..(nCells - 1) : FarCell2D(cellIndex, myCellIndex, cMass, gNx)}

RECURSIVE FarLoop2D(_, _, _, _, _, _, _, _, _)
FarLoop2D(cellIndex, nCells, position, myCellIndex, cMass, cCOM, gNx, G, acc) ==
  IF cellIndex >= nCells THEN acc
  ELSE FarLoop2D(cellIndex + 1, nCells, position, myCellIndex, cMass, cCOM, gNx, G,
         IF FarCell2D(cellIndex, myCellIndex, cMass, gNx)
         THEN VAdd(acc, CellAcceleration(position, cMass[cellIndex], cCOM[cellIndex], G))
         ELSE acc)

\* particles handled exactly by work item particleId
NearSet2D(particleId, idx, gNx, nParticles) ==
  {otherId \in 0..(nParticles - 1) :
     otherId # particleId /\ InNeighbourhood2D(idx[otherId], idx[particleId], gNx)}

RECURSIVE NearLoop2D(_, _, _, _, _, _, _, _)
NearLoop2D(otherId, particleId, ps, ms, idx, gNx, G, acc) ==
  IF otherId >= 2 THEN acc
  ELSE NearLoop2D(otherId + 1, particleId, ps, ms, idx, gNx, G,
         IF otherId \in NearSet2D(particleId, idx, gNx, 2)
         THEN VAdd(acc, PointAcceleration(ps[particleId], ps[otherId], G, ms[otherId]))
         ELSE acc)

Coords2D == worldMin..worldMax
Positions2D == {<<x, y, 0>> : x \in Coords2D, y \in Coords2D}
Grids2D == {2, MaxGrid2D} \X {2, MaxGrid2D}

Init2D ==
  /\ kPos = Zero3 /\ kGrid = <<1, 1, 1>> /\ kIndex3 = 0 /\ kIndex2 = 0 /\ kRan = {}
  /\ wg = <<>>
  /\ ProgramOff
  /\ \E g \in Grids2D, p0 \in Positions2D, p1 \in Positions2D, fill \in Uninit :
       twoD = [grid |-> g, stage |-> "cellIndex", todo |-> {0, 1},
               pos |-> [i \in 0..1 |-> IF i = 0 THEN p0 ELSE p1],
               vel |-> [i \in 0..1 |-> ResetVelocity(i)],
               masses |-> [i \in 0..1 |-> InitMass],
               idx |-> [i \in 0..1 |-> fill],
               assigned |-> [i \in 0..1 |-> <<0, 0>>],
               cellMass |-> [c \in 0..(g[1] * g[2] - 1) |-> fill],
               cellCOM |-> [c \in 0..(g[1] * g[2] - 1) |-> <<fill, fill, fill>>],
               acc |-> [i \in 0..1 |-> Zero3],
               near |-> [i \in 0..1 |-> {}],
               far |-> [i \in 0..1 |-> {}],
               pc |-> [i \in 0..1 |-> "wait"]]

\* next kernel of the in-order queue once the work items of this one are done
NextStage2D(stage, todo, g) ==
  IF todo # {} THEN <<stage, todo>>
  ELSE IF stage = "cellIndex" THEN <<"computeCOM", 0..(g[1] * g[2] - 1)>>
  ELSE IF stage = "computeCOM" THEN <<"update", {0, 1}>>
  ELSE <<"done", {}>>

cellIndex2D(pid) ==
  LET g == twoD.grid
      nxt == NextStage2D("cellIndex", twoD.todo \ {pid}, g)
  IN  /\ twoD # <<>> /\ twoD.stage = "cellIndex" /\ pid \in twoD.todo
      /\ twoD' = [twoD EXCEPT
            !.idx[pid] = computeParticleCellIndex2D(twoD.pos[pid], g[1], g[2],
                            cellSizeInv(g[1]), cellSizeInv(g[2]), worldMin, worldMin),
            !.assigned[pid] = computeParticleCellCoords2D(twoD.pos[pid], g[1], g[2],
                            cellSizeInv(g[1]), cellSizeInv(g[2]), worldMin, worldMin),
            !.stage = nxt[1], !.todo = nxt[2]]
      /\ UNCHANGED <<kPos, kGrid, kIndex3, kIndex2, kRan, wg, pvars>>

\* one work-group of computeCellCOM; the groups write disjoint cells and are run in index order
cellCOM2D(cellId) ==
  LET g == twoD.grid
      nxt == NextStage2D("computeCOM", twoD.todo \ {cellId}, g)
      loc == GroupLocal(cellId, localSize, 2, twoD.idx, twoD.masses, twoD.pos)
  IN  /\ twoD # <<>> /\ twoD.stage = "computeCOM" /\ cellId \in twoD.todo
      /\ \A c \in twoD.todo : cellId <= c
      /\ twoD' = [twoD EXCEPT
            !.cellMass[cellId] = loc[0][1],
            !.cellCOM[cellId] = <<loc[0][2], loc[0][3], 0>>,
            !.stage = nxt[1], !.todo = nxt[2]]
      /\ UNCHANGED <<kPos, kGrid, kIndex3, kIndex2, kRan, wg, pvars>>

\* update work item up to the end of its near-field loop
updateNear2D(particleId) ==
  /\ twoD # <<>> /\ twoD.stage = "update" /\ twoD.pc[particleId] = "wait"
  /\ twoD' = [twoD EXCEPT
        !.acc[particleId] = NearLoop2D(0, particleId, twoD.pos, twoD.masses, twoD.idx,
                                       twoD.grid[1], InitGravity, Zero3),
        !.near[particleId] = NearSet2D(particleId, twoD.idx, twoD.grid[1], 2),
        !.pc[particleId] = "far"]
  /\ UNCHANGED <<kPos, kGrid, kIndex3, kIndex2, kRan, wg, pvars>>

\* far-field loop, integration and store of the update work item; it loaded its
\* own position and velocity at the start, and only it writes them
updateFar2D(particleId) ==
  LET g == twoD.grid
      nCells == g[1] * g[2]
      totalAcceleration == FarLoop2D(0, nCells, twoD.pos[particleId], twoD.idx[particleId],
                                     twoD.cellMass, twoD.cellCOM, g[1], InitGravity,
                                     twoD.acc[particleId])
      newVelocity == Integrate(twoD.pos[particleId], twoD.vel[particleId],
                               totalAcceleration, DtMax)[2]
      newPosition == Integrate(twoD.pos[particleId], twoD.vel[particleId],
                               totalAcceleration, DtMax)[1]
      nxt == NextStage2D("update", {i \in 0..1 : i # particleId /\ twoD.pc[i] # "done"}, g)
  IN  /\ twoD # <<>> /\ twoD.stage = "update" /\ twoD.pc[particleId] = "far"
      /\ twoD' = [twoD EXCEPT
            !.pos[particleId] = newPosition,
            !.vel[particleId] = newVelocity,
            !.far[particleId] = FarCells2D(twoD.idx[particleId], twoD.cellMass, g[1], nCells),
            !.pc[particleId] = "done",
            !.stage = nxt[1], !.todo = nxt[2]]
      /\ UNCHANGED <<kPos, kGrid, kIndex3, kIndex2, kRan, wg, pvars>>

Next2D ==
  \/ \E pid \in 0..1 : cellIndex2D(pid)
  \/ \E cellId \in 0..(MaxGrid2D * MaxGrid2D - 1) : cellCOM2D(cellId)
  \/ \E particleId \in 0..1 : updateNear2D(particleId)
  \/ \E particleId \in 0..1 : updateFar2D(particleId)

Spec2D == Init2D /\ [][Next2D]_vars

(***************************************************************************)
(* The work-group reduction: computeCellCOM, reduce_workgroup and          *)
(* hybrid_reduce, one work-group executed worker by worker.  A worker runs *)
(* from one barrier to the next in one step; it leaves a barrier when      *)
(* every worker of the group has arrived at it.                            *)
(***************************************************************************)
MaxLocalSize == 4      \* work-group sizes enumerated: 1..MaxLocalSize

ReduceKernels == {"computeCellCOM", "reduce_workgroup", "hybrid_reduce"}

\* a slot of local memory: <<mass, comX, comY, comZ>> (the four arrays of
\* computeCellCOM at one index), one int in the other kernels
SlotOf(kernel, x) == IF kernel = "computeCellCOM" THEN <<x, x, x, x>> ELSE x

\* localMass[localId] += localMass[localId + offset] ..., scratch[lid] += scratch[lid + offset]
SlotAdd(kernel, a, b) ==
  IF kernel = "computeCellCOM"
  THEN <<a[1] + b[1], a[2] + b[2], a[3] + b[3], a[4] + b[4]>>
  ELSE a + b

\* hybrid_reduce: for (int i = gid; i < length; i += gsize) sum += input[i]
RECURSIVE StridedSum(_, _, _, _, _)
StridedSum(i, gsize, length, input, sum) ==
  IF i >= length THEN sum ELSE StridedSum(i + gsize, gsize, length, input, sum + input[i])

\* the value a worker stores into local memory before the first barrier
WorkerPartial(g, localId) ==
  IF g.kernel = "computeCellCOM"
  THEN ThreadScan(localId, g.lSize, g.numParticles, g.cellId, g.idx, g.masses, g.pos,
                  <<0, 0, 0, 0>>)
  ELSE IF g.kernel = "reduce_workgroup"
  THEN (IF localId < g.length THEN g.input[localId] ELSE 0)
  ELSE StridedSum(localId, g.lSize, g.length, g.input, 0)

\* a return that depends on the worker instead of the group
EarlyReturnByWorker(kernel, cellId, localId, nCells) ==
  kernel = "computeCellCOM" /\ localId >= nCells

\* if (cellId >= totalCells) return;  with cellId = get_group_id(0)
EarlyReturn(kernel, cellId, localId, nCells) ==
  kernel = "computeCellCOM" /\ cellId >= nCells

\* a loop that starts one level too low
FirstOffsetQuarter(lSize) == lSize \div 4

\* offset = localSize >> 1
FirstOffset(lSize) == lSize \div 2

\* a worker that adds the slot of its neighbour
PartnerNext(localId, offset) == localId + 1

\* the slot worker localId adds to its own: localId + offset
Partner(localId, offset) == localId + offset

Workers == 0..(wg.lSize - 1)

\* a work-group before its first instruction; local memory and the output
\* slot hold whatever was there
WorkGroup(kernel, lSize, cellId, n, idx, input, length, fill) ==
  [kernel |-> kernel, lSize |-> lSize, cellId |-> cellId, totalCells |-> 1,
   numParticles |-> n, idx |-> idx,
   masses |-> [i \in 0..(n - 1) |-> InitMass],
   pos |-> [i \in 0..(n - 1) |-> <<i + 1, 1, 0 - 1>>],
   input |-> input, length |-> length,
   scratch |-> [l \in 0..(lSize - 1) |-> SlotOf(kernel, fill)],
   partial |-> [l \in 0..(lSize - 1) |-> SlotOf(kernel, 0)],
   pc |-> [l \in 0..(lSize - 1) |-> "start"],
   offset |-> [l \in 0..(lSize - 1) |-> 0],
   barriers |-> [l \in 0..(lSize - 1) |-> 0],
   out |-> SlotOf(kernel, fill),
   log |-> {}]

InitReduce ==
  /\ kPos = Zero3 /\ kGrid = <<1, 1, 1>> /\ kIndex3 = 0 /\ kIndex2 = 0 /\ kRan = {}
  /\ twoD = <<>>
  /\ ProgramOff
  /\ \E lSize \in 1..MaxLocalSize, fill \in Uninit :
       \/ \E cellId \in 0..1, members \in SUBSET (0..lSize) :
            wg = WorkGroup("computeCellCOM", lSize, cellId, lSize + 1,
                           [i \in 0..lSize |-> IF i \in members THEN cellId ELSE cellId + 1],
                           <<>>, 0, fill)
       \/ \E ones \in SUBSET (0..(lSize - 1)), length \in 0..(lSize + 1) :
            wg = WorkGroup("reduce_workgroup", lSize, 0, 0, <<>>,
                           [i \in 0..lSize |-> IF i \in ones THEN 1 ELSE 0], length, fill)
       \/ \E length \in 0..(2 * lSize + 1) :
            wg = WorkGroup("hybrid_reduce", lSize, 0, 0, <<>>,
                           [i \in 0..(2 * lSize) |-> i + 1], length, fill)

\* every worker of the group has arrived at the barrier localId waits at
BarrierOpen(localId) == \A m \in Workers : wg.barriers[m] >= wg.barriers[localId]

\* from the entry of the kernel to the first barrier
groupStore(localId) ==
  /\ wg # <<>> /\ localId \in Workers /\ wg.pc[localId] = "start"
  /\ IF EarlyReturn(wg.kernel, wg.cellId, localId, wg.totalCells)
     THEN wg' = [wg EXCEPT !.pc[localId] = "done"]
     ELSE wg' = [wg EXCEPT !.partial[localId] = WorkerPartial(wg, localId),
                           !.scratch[localId] = WorkerPartial(wg, localId),
                           !.pc[localId] = "barrier",
                           !.barriers[localId] = 1,
                           !.offset[localId] = FirstOffset(wg.lSize),
                           !.log = @ \cup {<<0, localId, localId, "w">>}]
  /\ UNCHANGED <<kPos, kGrid, kIndex3, kIndex2, kRan, twoD, pvars>>

\* one iteration of the halving loop: from a barrier to the next one
groupHalve(localId) ==
  /\ wg # <<>> /\ localId \in Workers /\ wg.pc[localId] = "barrier"
  /\ BarrierOpen(localId) /\ wg.offset[localId] > 0
  /\ LET offset == wg.offset[localId]
         epoch == wg.barriers[localId]
         other == Partner(localId, offset)
     IN  wg' = [wg EXCEPT
           !.scratch[localId] = IF localId < offset
                                THEN SlotAdd(wg.kernel, @, wg.scratch[other]) ELSE @,
           !.log = IF localId < offset
                   THEN @ \cup {<<epoch, localId, localId, "r">>, <<epoch, other, localId, "r">>,
                                <<epoch, localId, localId, "w">>}
                   ELSE @,
           !.barriers[localId] = @ + 1,
           !.offset[localId] = offset \div 2]
  /\ UNCHANGED <<kPos, kGrid, kIndex3, kIndex2, kRan, twoD, pvars>>

\* from the last barrier to the end: worker 0 writes the result
groupWrite(localId) ==
  /\ wg # <<>> /\ localId \in Workers /\ wg.pc[localId] = "barrier"
  /\ BarrierOpen(localId) /\ wg.offset[localId] = 0
  /\ wg' = [wg EXCEPT
        !.out = IF localId = 0 THEN wg.scratch[0] ELSE @,
        !.log = IF localId = 0 THEN @ \cup {<<wg.barriers[0], 0, 0, "r">>} ELSE @,
        !.pc[localId] = "done"]
  /\ UNCHANGED <<kPos, kGrid, kIndex3, kIndex2, kRan, twoD, pvars>>

NextReduce ==
  \/ \E localId \in 0..(MaxLocalSize - 1) : groupStore(localId)
  \/ \E localId \in 0..(MaxLocalSize - 1) : groupHalve(localId)
  \/ \E localId \in 0..(MaxLocalSize - 1) : groupWrite(localId)

SpecReduce == InitReduce /\ [][NextReduce]_vars

\* the device lets every worker of a running group take its steps
SpecReduceFair == SpecReduce /\ WF_vars(NextReduce)

(***************************************************************************)
(* Reference cell assignment of the design: floor, clamp, flatten          *)
(***************************************************************************)
RefCoord(p, gridN) == clamp(((p - worldMin) * gridN) \div (worldMax - worldMin), 0, gridN - 1)

RefIndex3D(position, g) ==
  RefCoord(position[1], g[1]) + RefCoord(position[2], g[2]) * g[1]
    + RefCoord(position[3], g[3]) * g[1] * g[2]

RefIndex2D(position, g) ==
  RefCoord(position[1], g[1]) + RefCoord(position[2], g[2]) * g[1]

(***************************************************************************)
(* Properties of cell assignment (SpecCell)                                *)
(***************************************************************************)
\* cell coordinates that a flattened index stands for
UnflatX(i, g) == i % g[1]
UnflatY(i, g) == (i \div g[1]) % g[2]
UnflatZ(i, g) == i \div (g[1] * g[2])

AxisClamped(p, cell, gridN) ==
  /\ p >= worldMax => cell = gridN - 1
  /\ p < worldMin => cell = 0

\* C6: for every position, inside, on or outside the world bounds, the index
\* stage 1 writes lies in [0, Nx*Ny*Nz - 1] (Nx*Ny - 1 in the 2-D kernel); a
\* coordinate at or beyond worldMax gives the last cell of its axis, one below
\* worldMin gives cell 0, and the slot is always written.
C6_IndexInRange ==
  /\ "3d" \in kRan =>
       /\ kIndex3 \in 0..(kGrid[1] * kGrid[2] * kGrid[3] - 1)
       /\ AxisClamped(kPos[1], UnflatX(kIndex3, kGrid), kGrid[1])
       /\ AxisClamped(kPos[2], UnflatY(kIndex3, kGrid), kGrid[2])
       /\ AxisClamped(kPos[3], UnflatZ(kIndex3, kGrid), kGrid[3])
  /\ "2d" \in kRan =>
       /\ kIndex2 \in 0..(kGrid[1] * kGrid[2] - 1)
       /\ AxisClamped(kPos[1], UnflatX(kIndex2, kGrid), kGrid[1])
       /\ AxisClamped(kPos[2], kIndex2 \div kGrid[1], kGrid[2])

\* a position beyond worldMax on x and below worldMin on z has been assigned
C6_Witness ==
  /\ kRan = {"3d", "2d"} /\ kPos[1] > worldMax /\ kPos[2] = worldMax /\ kPos[3] < worldMin
  /\ kGrid[1] > 1 /\ kGrid[3] > 1
  /\ UnflatX(kIndex3, kGrid) = kGrid[1] - 1 /\ UnflatZ(kIndex3, kGrid) = 0

\* C7: the index stage 1 writes depends only on the position and the grid, and
\* equals floor((pos - worldMin) * invCellSize) per axis, clamped to
\* [0, axisCellCount - 1] and flattened as x + y*Nx + z*Nx*Ny, also below
\* worldMin where the cast truncates toward zero instead of flooring.
C7_MatchesFloorReference ==
  "3d" \in kRan => kIndex3 = RefIndex3D(kPos, kGrid)

\* a coordinate below worldMin for which the truncating cast and floor differ
C7_Witness ==
  /\ "3d" \in kRan
  /\ kPos[1] < worldMin
  /\ CellCast(kPos[1], worldMin, cellSizeInv(kGrid[1]))
       # ((kPos[1] - worldMin) * kGrid[1]) \div (worldMax - worldMin)
  /\ kIndex3 = RefIndex3D(kPos, kGrid)

(***************************************************************************)
(* Properties of the tick pipeline (Spec)                                  *)
(***************************************************************************)
IsPrefix(a, b) == Len(a) <= Len(b) /\ \A i \in 1..Len(a) : a[i] = b[i]

RECURSIVE SumOver(_, _)
SumOver(f, S) ==
  IF S = {} THEN 0 ELSE LET x == CHOOSE y \in S : TRUE IN f[x] + SumOver(f, S \ {x})

Active == {p \in Particles : p < currentNumParticles}
Members(c) == {p \in Active : particleCellIndex[p] = c}
\* an unpaused tick is running, or has ended and the GUI of its frame has not run yet
TickOpen == tickLog.status \in {"running", "done"} /\ hostPc \in {"finish", "render", "gui"}
Stage2Complete == TickOpen /\ tickLog.finished["computeCOM"] = Groups
\* stage 2 is complete and no work item of stage 3 has stored a new position
AfterStage2 == Stage2Complete /\ tickLog.finished["update"] \cap Active = {}
\* the update kernel of the tick has been launched and the work item of p has returned
LaneDone(p) ==
  /\ TickOpen /\ \E i \in 1..Len(tickLog.launched) : tickLog.launched[i] = "update"
  /\ p \in Active /\ lane[p].pc = "done"

\* C1: in every unpaused tick the device runs acquire, cell assignment, cell
\* aggregation, force update and release once each, in that order, and no work
\* item of a stage starts before every work item of the preceding stage is done.
C1_StagesInOrder ==
  TickOpen =>
    /\ IsPrefix(tickLog.launched, <<"acquire", "cellIndex", "computeCOM", "update", "release">>)
    /\ tickLog.status = "done" =>
         tickLog.launched = <<"acquire", "cellIndex", "computeCOM", "update", "release">>
    /\ tickLog.started["computeCOM"] # {} => tickLog.finished["cellIndex"] = Lanes
    /\ tickLog.started["update"] # {} => tickLog.finished["computeCOM"] = Groups
    /\ \A k \in {"cellIndex", "computeCOM", "update"} : tickLog.finished[k] \subseteq tickLog.started[k]

\* an unpaused tick has run to the end with all its work items
C1_Witness ==
  /\ TickOpen /\ tickLog.status = "done" /\ Len(tickLog.launched) = 5
  /\ tickLog.finished["update"] = Lanes /\ tickLog.finished["computeCOM"] = Groups

C3_EachParticleOnce ==
  \A p \in Particles :
    LaneDone(p) =>
      /\ lane[p].nearCount[p] = 0
      /\ lane[p].farCount[particleCellIndex[p]] = 0
      /\ \A q \in Active \ {p} :
           lane[p].nearCount[q] + lane[p].farCount[particleCellIndex[q]] = 1

\* a work item that handled one particle exactly and another through its cell
C3_Witness ==
  \E p \in Particles :
    /\ LaneDone(p)
    /\ \E q, r \in Active \ {p} :
         /\ lane[p].nearCount[q] = 1
         /\ lane[p].farCount[particleCellIndex[r]] = 1

Chebyshev(a, b) ==
  LET d == <<Abs(a[1] - b[1]), Abs(a[2] - b[2]), Abs(a[3] - b[3])>>
  IN  IF d[1] >= d[2] /\ d[1] >= d[3] THEN d[1] ELSE IF d[2] >= d[3] THEN d[2] ELSE d[3]

\* C4: in the 3-D update kernel a particle q other than p is handled in the
\* near-field loop exactly when the cell coordinates stage 1 assigned to q differ
\* from p's by at most 1 on every axis (26 adjacent cells, z-layers included).
C4_NearIffAdjacent ==
  \A p \in Particles :
    LaneDone(p) =>
      \A q \in Active \ {p} :
        (lane[p].nearCount[q] >= 1) <=> (Chebyshev(tickLog.assigned[q], tickLog.assigned[p]) <= 1)

RECURSIVE NearLoopAt(_, _, _, _)
NearLoopAt(otherId, p, ps, acc) ==
  IF otherId >= kernelArgs.updateN THEN acc
  ELSE NearLoopAt(otherId + 1, p, ps,
         IF otherId # p /\ InNeighbourhood(particleCellIndex[otherId], particleCellIndex[p], gridNx, gridNy)
         THEN VAdd(acc, PointAcceleration(ps[p], ps[otherId], kernelArgs.G, masses[otherId]))
         ELSE acc)

VelocityAtLaunch(p) ==
  VAdd(tickLog.velAtUpdate[p],
       VScale(FarLoop(0, kernelArgs.totalCells, tickLog.posAtUpdate[p], particleCellIndex[p],
                      cellMass, cellCOM, gridNx, gridNy, kernelArgs.G,
                      NearLoopAt(0, p, tickLog.posAtUpdate, Zero3)),
              kernelArgs.deltaTime))

PositionAtLaunch(p) == VAdd(tickLog.posAtUpdate[p], VScale(VelocityAtLaunch(p), kernelArgs.deltaTime))

BetweenTicks == hostPc \in {"update", "render", "gui"}

C10_NoReadWriteHazard ==
  /\ \A w1 \in tickLog.writes : \A w2 \in tickLog.writes :
       (w1[1] = w2[1] /\ w1[2] = w2[2]) => w1[3] = w2[3]
  /\ \A r \in tickLog.reads : \A w \in tickLog.writes :
       (r[1] = w[1] /\ r[2] = w[2]) => r[3] = w[3]
  /\ (TickOpen /\ tickLog.status = "done") =>
       \A p \in Active : pos[p] = PositionAtLaunch(p) /\ vel[p] = VelocityAtLaunch(p)

(***************************************************************************)
(* Properties of the 2-D update kernel (Spec2D)                            *)
(***************************************************************************)
\* C5: in the 2-D update kernel, on a 2x2 grid a particle in cell (0,0) and one
\* in cell (1,1) are treated as near-field (exact force, cell (1,1) skipped in
\* the far-field loop); on a grid of at least 4x4 cells a particle whose cell
\* differs by 2 or more on some axis is never handled in the near-field loop and
\* is accounted for through its cell's aggregate only.
C5_NearFarByGrid ==
  \A p \in 0..1 : \A q \in (0..1) \ {p} :
    LET a == twoD.assigned[p]
        b == twoD.assigned[q]
    IN  /\ (twoD.grid = <<2, 2>> /\ a = <<0, 0>> /\ b = <<1, 1>>) =>
             /\ twoD.pc[p] \in {"far", "done"} => q \in twoD.near[p]
             /\ twoD.pc[p] = "done" => twoD.idx[q] \notin twoD.far[p]
        /\ (twoD.grid[1] >= 4 /\ twoD.grid[2] >= 4
              /\ (Abs(a[1] - b[1]) >= 2 \/ Abs(a[2] - b[2]) >= 2)) =>
             /\ twoD.pc[p] \in {"far", "done"} => q \notin twoD.near[p]
             /\ twoD.pc[p] = "done" => twoD.idx[q] \in twoD.far[p]

\* on the 2x2 grid the work item of the particle in cell (0,0) has finished and
\* handled the particle in cell (1,1) exactly
C5_Witness ==
  /\ twoD.grid = <<2, 2>> /\ twoD.pc[0] = "done"
  /\ twoD.assigned[0] = <<0, 0>> /\ twoD.assigned[1] = <<1, 1>>
  /\ 1 \in twoD.near[0] /\ twoD.idx[1] \notin twoD.far[0]

(***************************************************************************)
(* Properties of the hand-over of the shared buffers (Spec)                *)
(***************************************************************************)
Launched(cmd) == \E i \in 1..Len(tickLog.launched) : tickLog.launched[i] = cmd
DeviceQuiet == queue = <<>> /\ running = "idle"

\* C11: in every unpaused tick the shared position and velocity buffers are
\* acquired before stage 1 is issued and released after stage 3, kernels run
\* only while the buffers are held, and Render and the buffer mapping of
\* ResetSimulation take place only while the pipeline does not hold them.
C11_BuffersHandedOver ==
  /\ running # "idle" => glAcquired
  /\ TickOpen =>
       /\ Launched("cellIndex") => tickLog.launched[1] = "acquire"
       /\ Launched("release") => tickLog.finished["update"] = Lanes /\ running = "idle"
  /\ hostPc \in {"initCL", "render", "gui"} => ~glAcquired /\ DeviceQuiet

\* the reset button has been pressed in the frame of a completed tick, after its Render
C11_Witness ==
  /\ hostPc = "update" /\ tickLog.gui = "reset" /\ tickLog.status = "done"
  /\ Launched("release") /\ ~glAcquired

\* C12: when Update has returned from an unpaused tick all three stages have
\* completed for every active particle and the buffers are released; the
\* position Render draws for every active particle is the one its work item
\* stored in this tick (its position before the tick advanced by its new velocity).
C12_RenderSeesWholeTick ==
  (TickOpen /\ tickLog.status = "done") =>
    /\ hostPc \in {"render", "gui"}
    /\ tickLog.finished["cellIndex"] = Lanes
    /\ tickLog.finished["computeCOM"] = Groups
    /\ tickLog.finished["update"] = Lanes
    /\ Launched("release") /\ ~glAcquired /\ DeviceQuiet
    /\ \A p \in Active :
         /\ lane[p].pc = "done"
         /\ lane[p].position = tickLog.posAtUpdate[p]
         /\ pos[p] = VAdd(tickLog.posAtUpdate[p], VScale(vel[p], kernelArgs.deltaTime))

\* Render has drawn after a tick in which a particle moved
C12_Witness ==
  /\ hostPc = "gui" /\ tickLog.status = "done"
  /\ \E p \in Active : pos[p] # tickLog.posAtUpdate[p]
  /\ \A p \in Active : lane[p].pc = "done"

(***************************************************************************)
(* Properties of pause and reset (SpecGui)                                 *)
(***************************************************************************)
\* the step is a RenderGUI in which the reset button is pressed
ResetPressed == hostPc = "gui" /\ tickLog'.gui = "reset"

\* C13: while the pause flag is set a tick issues no acquire, no kernel and no
\* release and leaves positions, velocities, masses, cell indices, cell
\* aggregates and kernel arguments as they were (it only adds the telemetry
\* sample); nothing but a reset changes them until the flag is cleared, so
\* the pipeline resumes from the state it was paused in.
C13_PausedTickIsNoOp ==
  [][simulation_paused =>
       /\ UNCHANGED <<glAcquired, queue, running, pending, lane>>
       /\ tickLog'.launched = tickLog.launched
       /\ ~ResetPressed =>
            UNCHANGED <<pos, vel, masses, particleCellIndex, cellMass, cellCOM, kernelArgs>>
       /\ hostPc = "update" =>
            hostPc' = "render" /\ frameTimes' = addSample(frameTimes)
                               /\ tickLog'.status = "skipped"]_vars

\* the flag has been cleared after a paused tick: the next tick will run
C13_Witness ==
  /\ hostPc = "update" /\ ~simulation_paused
  /\ tickLog.status = "skipped" /\ tickLog.gui = "pause"

ParticleArgsAre(args, n) == args.cellIndexN = n /\ args.comN = n /\ args.updateN = n

\* C14: after every ResetSimulation the active count equals the configured
\* count, that count is the numParticles argument of all three kernels and all
\* active masses are > 0; a reset in a state a reset with the same configured
\* count has left changes neither the active count nor the kernel arguments.
C14_ResetRestoresCount ==
  [][ResetPressed =>
       /\ currentNumParticles' = numParticles
       /\ ParticleArgsAre(kernelArgs', numParticles)
       /\ \A p \in Particles : p < currentNumParticles' => masses'[p] > 0
       /\ (currentNumParticles = numParticles /\ ParticleArgsAre(kernelArgs, numParticles)) =>
            (currentNumParticles' = currentNumParticles /\ kernelArgs' = kernelArgs)]_vars

\* a reset has lowered the active count: the record behind the last active
\* particle still holds the mass of a particle that was active before
C14_Witness ==
  /\ hostPc = "update" /\ tickLog.gui = "reset"
  /\ currentNumParticles = numParticles /\ currentNumParticles < maxParticles
  /\ ParticleArgsAre(kernelArgs, currentNumParticles)
  /\ masses[currentNumParticles] = InitMass

(***************************************************************************)
(* Properties of the grid (Spec)                                           *)
(***************************************************************************)
GridArgs(args) ==
  <<args.gridNx, args.gridNy, args.gridNz, args.totalCells, args.cellSizeInv, args.worldMin>>

\* C15: after InitCL no tick, reset or GUI action changes the grid: the
\* per-axis cell counts, totalCells, the world bounds, the inverse cell sizes
\* and the grid arguments of the kernels keep the values InitCL bound.
C15_GridImmutable ==
  /\ [](context # 0 /\ hostPc \in {"update", "finish", "render", "gui"} =>
          /\ config = DefaultConfig
          /\ GridArgs(kernelArgs) = GridArgs(BoundArgs(DefaultConfig, 0)))
  /\ [][hostPc # "initCL" =>
          config' = config /\ GridArgs(kernelArgs') = GridArgs(kernelArgs)]_vars

\* a tick has run after a reset and the grid arguments are those of InitCL
C15_Witness ==
  /\ tickLog.gui = "reset" /\ tickLog.status = "done" /\ frame = MaxFrames /\ hostPc = "render"
  /\ kernelArgs.totalCells = totalCells
  /\ GridArgs(kernelArgs) = GridArgs(BoundArgs(DefaultConfig, 0))

(***************************************************************************)
(* Properties of configuration and startup errors                          *)
(***************************************************************************)
ValidConfig(cfg) ==
  \A axis \in 1..3 : cfg.grid[axis] > 0 /\ cfg.worldMin[axis] < cfg.worldMax[axis]

InitFaulted == tickLog.fault \in {"context", "build", "kernel", "buffer"}

\* C17: if creating the context, building the program, creating a kernel or
\* allocating a buffer fails in InitCL, main returns EXIT_FAILURE and the main
\* loop is never entered: no tick is started, nothing is enqueued or drawn.
C17_InitFailureEndsSession ==
  /\ [](InitFaulted =>
          /\ hostPc = "exit" /\ exitCode = "EXIT_FAILURE"
          /\ frame = 0 /\ tickLog.status = "none" /\ tickLog.launched = <<>>
          /\ queue = <<>> /\ running = "idle" /\ kernelArgs = UnsetArgs)
  /\ [][hostPc = "initCL" =>
          /\ InitFaulted' <=> hostPc' = "exit"
          /\ (\A i \in 1..Len(platforms) : ~platforms[i]) => tickLog'.fault = "context"]_vars
  /\ [][hostPc = "exit" => hostPc' = "exit" /\ UNCHANGED <<frame, exitCode, tickLog>>]_vars

\* the program build failed after the context had been created
C17_Witness ==
  /\ hostPc = "exit" /\ exitCode = "EXIT_FAILURE"
  /\ tickLog.fault = "build" /\ context # 0 /\ frame = 0

\* position of a command in the pipeline
FaultIndex(cmd) == CHOOSE i \in 1..5 :
  <<"acquire", "cellIndex", "computeCOM", "update", "release">>[i] = cmd

\* C18: if a device operation of an unpaused tick fails (acquire, a kernel
\* dispatch, release or finish) no later stage of the tick is issued, the tick
\* is not retried, no Render or tick follows and main returns EXIT_FAILURE.
C18_TickFailureEndsSession ==
  /\ []((tickLog.status = "failed") =>
          /\ hostPc = "exit" /\ exitCode = "EXIT_FAILURE"
          /\ IsPrefix(tickLog.launched \o queue,
                      <<"acquire", "cellIndex", "computeCOM", "update", "release">>)
          /\ tickLog.fault # "finish" =>
               /\ tickLog.launched = <<>>
               /\ Len(queue) = FaultIndex(tickLog.fault) - 1
          /\ tickLog.fault = "finish" => Len(tickLog.launched \o queue) = 5 /\ queue # <<>>)
  /\ [][tickLog.status = "failed" => UNCHANGED vars]_vars

\* the dispatch of the update kernel has thrown: acquire and two kernels were enqueued
C18_Witness ==
  /\ hostPc = "exit" /\ tickLog.status = "failed" /\ tickLog.fault = "update"
  /\ queue = <<"acquire", "cellIndex", "computeCOM">> /\ frame = MaxFrames

\* C19 (as stated): when creating the shared context fails for a platform,
\* startup reports that failure instead of going on with another platform.
C19_ContextFailureReported ==
  (hostPc # "initCL" /\ Len(platforms) >= 1 /\ ~platforms[1]) =>
    (hostPc = "exit" /\ exitCode = "EXIT_FAILURE" /\ context = 0)

\* C19 (amended): startup reports a failure of context creation only when it
\* fails on every platform; a platform on which it fails is passed over and
\* the first platform on which it succeeds provides the context.
C19_ReportedWhenNoPlatformShares ==
  hostPc # "initCL" =>
    IF \A i \in 1..Len(platforms) : ~platforms[i]
    THEN hostPc = "exit" /\ exitCode = "EXIT_FAILURE" /\ context = 0 /\ tickLog.fault = "context"
    ELSE /\ context \in 1..Len(platforms) /\ platforms[context]
         /\ \A j \in 1..(context - 1) : ~platforms[j]
         /\ tickLog.fault # "context"

\* the first platform failed, the second one provides the context and a tick has run
C19_Witness ==
  /\ Len(platforms) = 2 /\ ~platforms[1] /\ context = 2
  /\ hostPc = "render" /\ tickLog.status = "done"

(***************************************************************************)
(* Properties of the time step (SpecDelta)                                 *)
(***************************************************************************)
\* C20: for every frame delta, negative, zero or large, the deltaTime
\* argument of an unpaused tick lies in [DtMin, DtMax] (the delta itself when
\* it lies in that range), from the moment the tick is enqueued on.
C20_DeltaTimeClamped ==
  TickOpen =>
    /\ kernelArgs.deltaTime \in DtMin..DtMax
    /\ tickLog.delta < DtMin => kernelArgs.deltaTime = DtMin
    /\ tickLog.delta > DtMax => kernelArgs.deltaTime = DtMax
    /\ tickLog.delta \in DtMin..DtMax => kernelArgs.deltaTime = tickLog.delta

\* the update kernel has run in a tick whose frame delta was negative
C20_Witness ==
  /\ TickOpen /\ tickLog.delta < 0 /\ kernelArgs.deltaTime = DtMin
  /\ tickLog.finished["update"] = Lanes

(***************************************************************************)
(* Properties of the cell decoding in the update kernel (Spec)             *)
(***************************************************************************)
\* C21: decoding in the update kernel is the inverse of the flattening of
\* stage 1: for every cell index the far-field loop of a work item walks
\* through, the coordinates the kernel derives from it are the (x, y, z) with
\* index = x + y*Nx + z*Nx*Ny, 0 <= x < Nx, 0 <= y < Ny, 0 <= z < Nz.
C21_DecodeInvertsFlatten ==
  \A p \in Active :
    LaneDone(p) =>
      LET g == <<kernelArgs.gridNx, kernelArgs.gridNy, kernelArgs.gridNz>>
      IN  \A c \in 0..(kernelArgs.totalCells - 1) :
            /\ DecodeX(c, g[1]) = UnflatX(c, g)
            /\ DecodeY(c, g[1]) = UnflatY(c, g)
            /\ DecodeZ(c, g[1], g[2]) = UnflatZ(c, g)

(***************************************************************************)
(* Properties of the work-group reduction (SpecReduce, SpecReduceFair)     *)
(***************************************************************************)
IsPowerOfTwo(n) == \E k \in 0..n : 2 ^ k = n

\* every worker has left the halving loop
LoopOver ==
  \A l \in Workers : wg.pc[l] \in {"barrier", "done"} /\ wg.barriers[l] >= 1 /\ wg.offset[l] = 0

AllDone == \A l \in Workers : wg.pc[l] = "done"

\* the partial sums of all workers of the group, each taken once
PartialTotal ==
  IF wg.kernel = "computeCellCOM"
  THEN <<SumOver([l \in Workers |-> wg.partial[l][1]], Workers),
         SumOver([l \in Workers |-> wg.partial[l][2]], Workers),
         SumOver([l \in Workers |-> wg.partial[l][3]], Workers),
         SumOver([l \in Workers |-> wg.partial[l][4]], Workers)>>
  ELSE SumOver(wg.partial, Workers)

\* C22: for every power-of-two work-group size, after the halving loop slot 0
\* of local memory holds the sum of the partial sums of all workers of the
\* group, each exactly once, and that is what worker 0 writes out; in
\* computeCellCOM, reduce_workgroup and hybrid_reduce.
C22_SlotZeroHoldsTotal ==
  (IsPowerOfTwo(wg.lSize) /\ LoopOver) =>
    /\ wg.scratch[0] = PartialTotal
    /\ wg.pc[0] = "done" => wg.out = PartialTotal

\* a group of four workers of computeCellCOM, each with a member of the cell
\* in its stride, has written its result
C22_Witness ==
  /\ wg.kernel = "computeCellCOM" /\ wg.lSize = 4 /\ AllDone
  /\ \A l \in Workers : wg.partial[l][1] > 0
  /\ wg.out = PartialTotal /\ wg.out[1] = 5 * InitMass

RECURSIVE HalvingCount(_)
HalvingCount(offset) == IF offset > 0 THEN 1 + HalvingCount(offset \div 2) ELSE 0

Returned(l) == wg.pc[l] = "done" /\ wg.barriers[l] = 0

\* C23: in computeCellCOM (and in the two reduce kernels) the early return is
\* taken by all workers of a group or by none, every worker that goes on
\* executes the same barriers, one after the store and one per halving step,
\* no worker waits at a barrier that a finished worker never reached, and
\* the group terminates.
C23_BarriersUniformAndTerminates ==
  /\ [](\A l, m \in Workers :
          /\ (Returned(l) /\ wg.pc[m] # "start") => Returned(m)
          /\ (wg.pc[l] = "done" /\ ~Returned(l)) =>
               wg.barriers[l] = 1 + HalvingCount(wg.lSize \div 2)
          /\ (wg.pc[l] = "barrier" /\ wg.pc[m] = "done") => wg.barriers[m] >= wg.barriers[l])
  /\ <>AllDone

\* a group of four workers of computeCellCOM has finished after three barriers
C23_Witness ==
  /\ wg.kernel = "computeCellCOM" /\ wg.lSize = 4 /\ wg.cellId < wg.totalCells /\ AllDone
  /\ \A l \in Workers : wg.barriers[l] = 3

\* offset of the halving step that follows barrier number epoch
RECURSIVE OffsetAt(_, _)
OffsetAt(lSize, epoch) ==
  IF epoch <= 1 THEN lSize \div 2 ELSE OffsetAt(lSize, epoch - 1) \div 2

\* C29: in every halving step the slots written ([0, offset)) are disjoint from
\* the slots read from other workers ([offset, 2*offset)) and each written slot
\* is written by one worker only: between two barriers no worker reads or
\* writes a slot another worker writes, for any work-group size.
C29_NoLocalMemoryRace ==
  /\ \A a, b \in wg.log :
       (a[1] = b[1] /\ a[2] = b[2] /\ a[3] # b[3]) => (a[4] = "r" /\ b[4] = "r")
  /\ \A a \in wg.log :
       a[1] >= 1 =>
         LET offset == OffsetAt(wg.lSize, a[1])
         IN  /\ a[4] = "w" => a[2] < offset
             /\ (a[4] = "r" /\ a[2] # a[3]) => (offset <= a[2] /\ a[2] < 2 * offset)

\* a group of three workers has finished: worker 0 has read slot 1 in the
\* only halving step
C29_Witness ==
  /\ wg.lSize = 3 /\ AllDone /\ ~Returned(0)
  /\ <<1, 1, 0, "r">> \in wg.log /\ <<1, 0, 0, "w">> \in wg.log

(***************************************************************************)
(* Properties of the integration step (Spec)                               *)
(***************************************************************************)
\* C24: stage 3 integrates kick-then-drift: the velocity a work item stores is
\* velocity + totalAcceleration * deltaTime, and the position it stores is
\* position + (that new velocity) * deltaTime.
C24_KickThenDrift ==
  \A p \in Active :
    LaneDone(p) =>
      /\ vel[p] = VAdd(lane[p].velocity,
                       VScale(lane[p].totalAcceleration, kernelArgs.deltaTime))
      /\ pos[p] = VAdd(lane[p].position, VScale(vel[p], kernelArgs.deltaTime))

\* a particle was accelerated in a tick: the position it got differs from the
\* one the velocity from before the tick would have given
C24_Witness ==
  \E p \in Active :
    /\ LaneDone(p) /\ lane[p].totalAcceleration # Zero3
    /\ pos[p] # VAdd(lane[p].position, VScale(lane[p].velocity, kernelArgs.deltaTime))
    /\ pos[p] = VAdd(lane[p].position, VScale(vel[p], kernelArgs.deltaTime))


\* buffer capacities: every per-particle buffer holds maxParticles elements
ParticleCapacity ==
  /\ DOMAIN pos = Particles /\ DOMAIN vel = Particles
  /\ DOMAIN masses = Particles /\ DOMAIN particleCellIndex = Particles

\* C25: at every tick and every render the active count is at most the buffer
\* capacity maxParticles; the three kernels and the draw call use the same
\* active count; changing the configured count changes the active count only
\* at the next reset; a reset never reallocates a buffer.
C25_ActiveCountWithinCapacity ==
  /\ [](hostPc \in {"update", "finish", "render", "gui"} =>
          /\ currentNumParticles \in 2..maxParticles
          /\ ParticleCapacity
          /\ ParticleArgsAre(kernelArgs, currentNumParticles))
  /\ [][hostPc = "render" => tickLog'.drawn = currentNumParticles]_vars
  /\ [][currentNumParticles' # currentNumParticles =>
          ResetPressed /\ currentNumParticles' = numParticles]_vars
  /\ [][ResetPressed => /\ DOMAIN pos' = DOMAIN pos /\ DOMAIN vel' = DOMAIN vel
                        /\ DOMAIN masses' = DOMAIN masses
                        /\ DOMAIN particleCellIndex' = DOMAIN particleCellIndex
                        /\ DOMAIN cellMass' = DOMAIN cellMass
                        /\ DOMAIN cellCOM' = DOMAIN cellCOM]_vars

\* a frame is drawn after the slider has moved the configured count away from
\* the active one and before any reset: the draw still uses the active count
C25_Witness ==
  /\ hostPc = "gui" /\ tickLog.status = "done" /\ numParticles # currentNumParticles
  /\ tickLog.drawn = currentNumParticles /\ tickLog.finished["update"] = Lanes


(***************************************************************************)
(* Buffer extents and record layout.  The host sizes and fills the buffers *)
(* in units of glm::vec3, three packed floats; the kernels declare them as *)
(* float3 pointers, whose elements are four floats apart.                  *)
(***************************************************************************)
\* floats in one glm::vec3 of the host
HostVec3Floats == 3
\* floats from one float3 element of a kernel's buffer to the next
DeviceFloat3Floats == 4

\* elements of clCellMass: gridNx * gridNy * sizeof(float) bytes of floats
clCellMassElements(grid) == grid[1] * grid[2]
\* whole float3 elements in clCellCOM: gridNx * gridNy * sizeof(glm::vec3) bytes
clCellCOMElements(grid) == (grid[1] * grid[2] * HostVec3Floats) \div DeviceFloat3Floats

\* C26: every index at which stage 2 writes and stage 3 reads cellMass and
\* cellCOM is smaller than the number of elements InitCL has allocated for
\* that buffer (the buffers hold one element per cell the kernels address).
C26_CellAccessesAllocated ==
  TickOpen =>
    \A a \in tickLog.reads \cup tickLog.writes :
      /\ a[1] = "cellMass" => a[2] < clCellMassElements(config.grid)
      /\ a[1] = "cellCOM" => a[2] < clCellCOMElements(config.grid)


\* floats in each of the two vertex buffers: maxParticles * sizeof(glm::vec3) bytes
vboFloats == maxParticles * HostVec3Floats
\* the float at which the host (upload at reset, vertex attribute of the draw
\* call) places component k of record i
HostFloat(i, k) == i * HostVec3Floats + k
\* the float at which a kernel finds component k of pos[i] or vel[i]
DeviceFloat(i, k) == i * DeviceFloat3Floats + k

\* C27: every position and velocity record a kernel reads or writes as element
\* i is the record the host wrote at reset, and the renderer draws, as particle
\* i (host and kernels agree on the size of a record), and it lies inside the
\* buffer.
C27_RecordsAgree ==
  TickOpen =>
    \A a \in tickLog.reads \cup tickLog.writes :
      a[1] \in {"pos", "vel"} =>
        \A k \in 0..2 : /\ DeviceFloat(a[2], k) = HostFloat(a[2], k)
                        /\ DeviceFloat(a[2], k) < vboFloats


\* particles of the buffers that are not part of the simulation
Inactive == Particles \ Active

\* C28: a tick writes neither position, velocity nor cell index of a particle
\* whose index is >= the active count, and such a particle contributes to no
\* cell aggregate and to no other particle's acceleration, although work items
\* are dispatched for the whole capacity.
C28_InactiveUntouched ==
  /\ [][(hostPc # "initCL" /\ ~ResetPressed) =>
          \A p \in Inactive : /\ pos'[p] = pos[p] /\ vel'[p] = vel[p]
                              /\ particleCellIndex'[p] = particleCellIndex[p]]_vars
  /\ [](TickOpen =>
          /\ \A a \in tickLog.reads \cup tickLog.writes :
               a[1] \in {"pos", "vel", "masses", "particleCellIndex"} => a[2] \in Active
          /\ \A l \in tickLog.started["update"] : \A q \in Inactive : lane[l].nearCount[q] = 0
          /\ Stage2Complete =>
               \A c \in Cells :
                 /\ cellMass[c] = SumOver(masses, {p \in Active : particleCellIndex[p] = c})
                 /\ Launched("update") \/ \A axis \in 1..3 :
                      cellCOM[c][axis] = SumOver([p \in Particles |-> masses[p] * pos[p][axis]],
                                                 {p \in Active : particleCellIndex[p] = c}))

\* a finished tick with fewer active particles than work items: an inactive
\* particle with a positive mass carries the index of a cell that has active
\* members, its work items ran in stages 1 and 3, and its record is as before
C28_Witness ==
  /\ TickOpen /\ tickLog.status = "done" /\ Inactive # {}
  /\ \E q \in Inactive :
       /\ q \in tickLog.finished["cellIndex"] /\ q \in tickLog.finished["update"]
       /\ masses[q] > 0 /\ Members(particleCellIndex[q]) # {}
       /\ cellMass[particleCellIndex[q]] < SumOver(masses, Members(particleCellIndex[q]) \cup {q})
       /\ pos[q] = <<5, 5, 5>>


\* the active records hold what a reset uploads for count n
Repopulated(n, ps, vs, ms) ==
  /\ \E layout \in InitLayouts(n) : \A p \in 0..(n - 1) : ps[p] = layout[p]
  /\ \A p \in 0..(n - 1) : vs[p] = ResetVelocity(p) /\ ms[p] = InitMass

\* C30: a reset either repopulates the position, velocity and mass buffers for
\* the new active count or reports a failure; it never returns normally with
\* the count and the masses set while positions or velocities are the ones
\* from before the reset (as when mapping a buffer for the upload fails).
C30_ResetAllOrFailure ==
  [][ResetPressed =>
       \/ hostPc' = "exit" /\ exitCode' = "EXIT_FAILURE"
       \/ hostPc' = "update" /\ Repopulated(currentNumParticles', pos', vel', masses')]_vars

=============================================================================
